---- MODULE Spec2Model ----
\* Attendance-to-payroll engine of src/src/app.py (build_processor / process).
\*
\* Representation of the program's numbers (all exact, no floats):
\*   - a date is a day index, day 0 being a Monday, so that Python's
\*     date.weekday() (Mon=0 .. Sun=6) is  d % 7;
\*   - a datetime is the absolute minute  day*1440 + minute-of-day;
\*   - an hours value h is kept as the integer 60*h (HourDen);
\*   - a day-level money value v is kept as the integer 6000*v (MoneyDen =
\*     60 minutes x 100 percent), rates being whole percents;
\*   - pay_sick is kept as the integer 6000*n*v where n (avg_den) is the
\*     number of worked rows the average is taken over (1 with the fallback);
\*   - month-level amounts (gross, net) are kept over the denominator
\*     6000*n; rounded amounts (tax, levies, pension) are whole agorot.
EXTENDS Integers, Sequences, FiniteSets, TLC

VARIABLES params, csv_df, pc, res, session_state

vars == <<params, csv_df, pc, res, session_state>>

-----------------------------------------------------------------------------
\* Bounds of the model

MaxRows == 3        \* rows of the input table
FirstDay == 4       \* first date of the input alphabet (4 = a Friday)
LastDay == 6        \* last date of the input alphabet (6 = a Sunday)

-----------------------------------------------------------------------------
\* Generic helpers

Max(a, b) == IF a >= b THEN a ELSE b
Min(a, b) == IF a <= b THEN a ELSE b

RECURSIVE SumSeq(_)
SumSeq(s) == IF s = <<>> THEN 0 ELSE Head(s) + SumSeq(Tail(s))

SumCol(df, c) == SumSeq([i \in 1..Len(df) |-> df[i][c]])

RECURSIVE SelectRows(_, _)
SelectRows(df, keep) ==
    IF df = <<>> THEN <<>>
    ELSE IF keep[1] THEN <<Head(df)>> \o SelectRows(Tail(df), Tail(keep))
    ELSE SelectRows(Tail(df), Tail(keep))

\* Units
HourDen == 60
MoneyDen == HourDen * 100
DayMinutes == 1440
None == -1

-----------------------------------------------------------------------------
\* Utilities (app.py 142-158)

\* A clock cell is a record [text, minute]: text "hhmm" for a cell strptime
\* accepts as %H:%M (minute = minute of the day), else the cell's text.
\* parse_hhmm gives None for the empty cell, the placeholders "." and "-",
\* "nan" (a missing cell after astype(str)) and anything unparsable.
parse_hhmm(s) == IF s.text = "hhmm" THEN s.minute ELSE None

\* A date cell is a record [text, day]: text "dmy" for a cell strptime accepts
\* as %d/%m/%Y (day = day index), "" for an empty cell, "<NA>" for a missing
\* one after astype(str), "junk" for any other text. parse_date raises on
\* everything but "dmy".
DateParses(s) == s.text = "dmy"
parse_date(s) == s.day

overlap_minutes(a_start, a_end, b_start, b_end) ==
    Max(0, Min(a_end, b_end) - Max(a_start, b_start))

combine(day, minute) == day * DayMinutes + minute
DateOf(dt) == dt \div DayMinutes
weekday(d) == d % 7

\* daily_interval(day, t_start, t_end): end rolls to the next day if t_end <= t_start
daily_interval(day, t_start, t_end) ==
    <<combine(day, t_start),
      IF t_end <= t_start THEN combine(day, t_end) + DayMinutes ELSE combine(day, t_end)>>

minutes_to_hours(m) == m    \* m/60.0, kept over HourDen

-----------------------------------------------------------------------------
\* Time buckets (app.py 220-252)

T_16_00 == 960
T_07_30 == 450

\* variant: cur advances by an hour, not to the next midnight
RECURSIVE EveningLoop_hourly(_, _, _, _)
EveningLoop_hourly(cur, start_dt, end_dt, total) ==
    IF cur < end_dt
    THEN LET day == DateOf(cur)
             eve == daily_interval(day, T_16_00, 0)
         IN EveningLoop_hourly(cur + HourDen, start_dt, end_dt,
                               total + overlap_minutes(start_dt, end_dt, eve[1], eve[2]))
    ELSE total

RECURSIVE EveningLoop(_, _, _, _)
EveningLoop(cur, start_dt, end_dt, total) ==
    IF cur < end_dt
    THEN LET day == DateOf(cur)
             eve == daily_interval(day, T_16_00, 0)
         IN EveningLoop(combine(day, 0) + DayMinutes, start_dt, end_dt,
                        total + overlap_minutes(start_dt, end_dt, eve[1], eve[2]))
    ELSE total

compute_evening_minutes(start_dt, end_dt) == EveningLoop(start_dt, start_dt, end_dt, 0)

RECURSIVE NightLoop(_, _, _, _)
NightLoop(cur, start_dt, end_dt, total) ==
    IF cur < end_dt
    THEN LET day == DateOf(cur)
         IN NightLoop(combine(day, 0) + DayMinutes, start_dt, end_dt,
                      total + overlap_minutes(start_dt, end_dt,
                                              combine(day, 0), combine(day, T_07_30)))
    ELSE total

\* variant: only the night of the day the shift starts on
compute_night_minutes_first_day(start_dt, end_dt) ==
    overlap_minutes(start_dt, end_dt, combine(DateOf(start_dt), 0),
                    combine(DateOf(start_dt), T_07_30))

compute_night_minutes(start_dt, end_dt) == NightLoop(start_dt, start_dt, end_dt, 0)

\* iter_weekend_windows: Fri 16:00 -> Sun 07:30 for d = start-3d, +7, ... <= end+3d
RECURSIVE WeekendLoop(_, _)
WeekendLoop(d, window_end) ==
    IF d <= window_end
    THEN LET off == (4 - weekday(d)) % 7
             fri == d + off
         IN <<<<combine(fri, T_16_00), combine(fri + 2, T_07_30)>>>>
            \o WeekendLoop(d + 7, window_end)
    ELSE <<>>

\* variant: no margin of three days around the interval
iter_weekend_windows_no_margin(around_start, around_end) ==
    WeekendLoop(DateOf(around_start), DateOf(around_end))

iter_weekend_windows(around_start, around_end) ==
    WeekendLoop(DateOf(around_start - 3 * DayMinutes), DateOf(around_end + 3 * DayMinutes))

compute_weekend_minutes(start_dt, end_dt) ==
    LET ws == iter_weekend_windows(start_dt, end_dt)
    IN SumSeq([i \in 1..Len(ws) |-> overlap_minutes(start_dt, end_dt, ws[i][1], ws[i][2])])

-----------------------------------------------------------------------------
\* Status keywords (app.py 196-198): a status text is modelled by the set of
\* keywords it contains.

is_holiday(t) == "holiday" \in t
is_sick(t) == "sick" \in t
\* variant: the sick keyword wins over the no-attendance keyword
is_no_att_unless_sick(t) == "no_att" \in t /\ "sick" \notin t

is_no_att(t) == "no_att" \in t

-----------------------------------------------------------------------------
\* load_attendance_from_csv (app.py 201-217): the date column is stripped,
\* empty cells become missing, missing cells are filled forward from the row
\* above, and what stays missing reads "<NA>" after astype(str).

NA == [text |-> "<NA>", day |-> 0]

\* the texts line 212 replaces by a missing value (after strip)
Blank == {"", ".", "None", "nan", "NaN"}

RECURSIVE ffill(_, _)
ffill(df, last) ==
    IF df = <<>> THEN <<>>
    ELSE LET r == Head(df)
             d == IF r.date.text \in Blank THEN last ELSE r.date
         IN <<[r EXCEPT !.date = d]>> \o ffill(Tail(df), d)

\* An input table is a record [columns, rows]: the set of its column names
\* and the sequence of its rows. The required list, in the order it is checked.
required == <<"total", "t_out", "t_in", "status", "weekday", "date">>

Frame(rows) == [columns |-> {required[i] : i \in 1..Len(required)}, rows |-> rows]

\* the columns the for loop of 203-205 finds missing, in its order
\* variant: every required column is reported, present or not
MissingColumns_unchecked(df) == required

MissingColumns(df) == SelectSeq(required, LAMBDA c : c \notin df.columns)

\* raise ValueError(f"missing column: {c}") at the first of them
ValueError(c) == [status |-> "ValueError", column |-> c]

\* lines 206-217, reached when no column is missing
load_attendance_from_csv(df) == ffill(df.rows, NA)

-----------------------------------------------------------------------------
\* DataFrame.sort_values("date") + reset_index: a stable insertion sort (the
\* tables of the model are short, where numpy's sort is an insertion sort).

RECURSIVE InsertByDate(_, _)
InsertByDate(sorted, r) ==
    IF sorted = <<>> THEN <<r>>
    ELSE IF sorted[Len(sorted)].date <= r.date THEN Append(sorted, r)
    ELSE Append(InsertByDate(SubSeq(sorted, 1, Len(sorted) - 1), r), sorted[Len(sorted)])

RECURSIVE SortLoop(_, _)
SortLoop(df, acc) ==
    IF df = <<>> THEN acc ELSE SortLoop(Tail(df), InsertByDate(acc, Head(df)))

sort_values(df) == SortLoop(df, <<>>)

-----------------------------------------------------------------------------
\* compute_daily_rows (app.py 254-282)

SickRow(date, status) ==
    [date |-> date, status |-> status, is_sick |-> TRUE, holiday |-> is_holiday(status),
     start |-> None, end |-> None, minutes_total |-> 0, minutes_evening |-> 0,
     minutes_night |-> 0, minutes_weekend |-> 0, minutes_holiday |-> 0,
     worked_day |-> FALSE]

\* variant: the end is never rolled to the next day
WorkedRow_no_roll(date, status, t_in, t_out) ==
    LET start == combine(date, t_in)
        end == combine(date, t_out)
    IN [date |-> date, status |-> status, is_sick |-> FALSE, holiday |-> is_holiday(status),
        start |-> start, end |-> end, minutes_total |-> end - start,
        minutes_evening |-> compute_evening_minutes(start, end),
        minutes_night |-> compute_night_minutes(start, end),
        minutes_weekend |-> compute_weekend_minutes(start, end),
        minutes_holiday |-> IF is_holiday(status) THEN end - start ELSE 0,
        worked_day |-> TRUE]

WorkedRow(date, status, t_in, t_out) ==
    LET start == combine(date, t_in)
        end0 == combine(date, t_out)
        end == IF end0 <= start THEN end0 + DayMinutes ELSE end0
        minutes_total == end - start
    IN [date |-> date, status |-> status, is_sick |-> FALSE, holiday |-> is_holiday(status),
        start |-> start, end |-> end, minutes_total |-> minutes_total,
        minutes_evening |-> compute_evening_minutes(start, end),
        minutes_night |-> compute_night_minutes(start, end),
        minutes_weekend |-> compute_weekend_minutes(start, end),
        minutes_holiday |-> IF is_holiday(status) THEN minutes_total ELSE 0,
        worked_day |-> TRUE]

\* variant: no continue after the sick row, so a sick row with clock times
\* adds a worked row as well
DailyRowsOf_sick_and_worked(r) ==
    LET t_in == parse_hhmm(r.t_in)
        t_out == parse_hhmm(r.t_out)
    IN IF is_no_att(r.status) THEN <<>>
       ELSE IF ~DateParses(r.date) THEN <<>>
       ELSE (IF is_sick(r.status) THEN <<SickRow(parse_date(r.date), r.status)>> ELSE <<>>)
            \o (IF t_in = None \/ t_out = None THEN <<>>
                ELSE LET w == WorkedRow(parse_date(r.date), r.status, t_in, t_out)
                     IN IF w.minutes_total <= 0 THEN <<>> ELSE <<w>>)

\* variant: the clock times are required before the sick status is looked at
DailyRowsOf_clocks_first(r) ==
    LET t_in == parse_hhmm(r.t_in)
        t_out == parse_hhmm(r.t_out)
    IN IF is_no_att(r.status) THEN <<>>
       ELSE IF ~DateParses(r.date) THEN <<>>
       ELSE IF t_in = None \/ t_out = None THEN <<>>
       ELSE IF is_sick(r.status) THEN <<SickRow(parse_date(r.date), r.status)>>
       ELSE LET w == WorkedRow(parse_date(r.date), r.status, t_in, t_out)
            IN IF w.minutes_total <= 0 THEN <<>> ELSE <<w>>

\* the rows one input row appends (none when it is skipped)
DailyRowsOf(r) ==
    LET t_in == parse_hhmm(r.t_in)
        t_out == parse_hhmm(r.t_out)
    IN IF is_no_att(r.status) THEN <<>>
       ELSE IF ~DateParses(r.date) THEN <<>>
       ELSE IF is_sick(r.status) THEN <<SickRow(parse_date(r.date), r.status)>>
       ELSE IF t_in = None \/ t_out = None THEN <<>>
       ELSE LET w == WorkedRow(parse_date(r.date), r.status, t_in, t_out)
            IN IF w.minutes_total <= 0 THEN <<>> ELSE <<w>>

RECURSIVE DailyLoop(_)
DailyLoop(selected) ==
    IF selected = <<>> THEN <<>>
    ELSE DailyRowsOf(Head(selected)) \o DailyLoop(Tail(selected))

\* the rows list before the final sort; sorting an empty frame by the date
\* column raises (no such column), which process does not catch
compute_daily_rows(selected) == sort_values(DailyLoop(selected))

-----------------------------------------------------------------------------
\* add_pay_columns (app.py 285-315); p is the params object

clip_lower0(x) == Max(x, 0)

overtime(p, hours_total) == clip_lower0(hours_total - p.DAILY_REGULAR_HOURS)
\* variant: the first tier takes all the overtime, without the cap
hours_ot_t1_uncapped(p, hours_total) == overtime(p, hours_total)

hours_ot_t1(p, hours_total) == Min(overtime(p, hours_total), p.DAILY_T1_HOURS)
hours_ot_t2(p, hours_total) ==
    clip_lower0(overtime(p, hours_total) - hours_ot_t1(p, hours_total))

PayRow(p, r) ==
    LET base == p.HOURLY_WAGE
        hours_total == minutes_to_hours(r.minutes_total)
        hours_evening == minutes_to_hours(r.minutes_evening)
        hours_night == minutes_to_hours(r.minutes_night)
        hours_weekend == minutes_to_hours(r.minutes_weekend)
        hours_holiday == minutes_to_hours(r.minutes_holiday)
        t1 == hours_ot_t1(p, hours_total)
        t2 == hours_ot_t2(p, hours_total)
    IN r @@ [hours_total |-> hours_total, hours_evening |-> hours_evening,
             hours_night |-> hours_night, hours_weekend |-> hours_weekend,
             hours_holiday |-> hours_holiday,
             hours_morning |-> clip_lower0(hours_total - hours_evening - hours_night),
             pay_base |-> hours_total * base * 100,
             pay_evening_bonus |-> hours_evening * base * p.EVENING_BONUS,
             pay_night_bonus |-> hours_night * base * p.NIGHT_BONUS,
             pay_weekend_bonus |-> hours_weekend * base * p.WEEKEND_BONUS,
             pay_holiday_bonus |-> hours_holiday * base * p.HOLIDAY_BONUS,
             hours_ot_t1 |-> t1, hours_ot_t2 |-> t2,
             pay_overtime_t1 |-> t1 * base * p.OVERTIME_T1_BONUS,
             pay_overtime_t2 |-> t2 * base * p.OVERTIME_T2_BONUS,
             travel_pay |-> 0, pay_total_day |-> 0]

\* the dates of df in order of first appearance (groupby(..., sort=False))
RECURSIVE GroupKeys(_, _)
GroupKeys(keys, seen) ==
    IF keys = <<>> THEN <<>>
    ELSE IF Head(keys) \in seen THEN GroupKeys(Tail(keys), seen)
    ELSE <<Head(keys)>> \o GroupKeys(Tail(keys), seen \cup {Head(keys)})

\* idx = g.index[worked_day & ~is_sick]; idx[0], or 0 when idx is empty
FirstTravelIndex(df, d) ==
    LET idx == {i \in 1..Len(df) : df[i].date = d /\ df[i].worked_day /\ ~df[i].is_sick}
    IN IF idx = {} THEN 0 ELSE CHOOSE i \in idx : \A j \in idx : i <= j

\* variant: the allowance on every worked, non-sick row of the date
\* (out/payroll_with_net.py 247-248)
TravelLoop_every_row(p, df, dates) ==
    [i \in 1..Len(df) |->
        IF df[i].worked_day /\ ~df[i].is_sick
        THEN [df[i] EXCEPT !.travel_pay = p.DAILY_TRAVEL * MoneyDen] ELSE df[i]]

RECURSIVE TravelLoop(_, _, _)
TravelLoop(p, df, dates) ==
    IF dates = <<>> THEN df
    ELSE LET i == FirstTravelIndex(df, Head(dates))
         IN TravelLoop(p, IF i = 0 THEN df
                          ELSE [df EXCEPT ![i].travel_pay = p.DAILY_TRAVEL * MoneyDen],
                       Tail(dates))

\* variant: the day total without the evening bonus
PayTotalDay_without_evening(r) ==
    r.pay_base + r.pay_night_bonus + r.pay_weekend_bonus
    + r.pay_holiday_bonus + r.pay_overtime_t1 + r.pay_overtime_t2 + r.travel_pay

PayTotalDay(r) ==
    r.pay_base + r.pay_evening_bonus + r.pay_night_bonus + r.pay_weekend_bonus
    + r.pay_holiday_bonus + r.pay_overtime_t1 + r.pay_overtime_t2 + r.travel_pay

\* hours_total of the rows of df up to row i that have row i's date
DateHoursUpTo(df, i) ==
    SumSeq([j \in 1..i |-> IF df[j].date = df[i].date THEN df[j].hours_total ELSE 0])

\* row i with the overtime its hours add to the overtime of its date so far
PerDateOvertimeRow(p, df, i) ==
    LET upto == DateHoursUpTo(df, i)
        before == upto - df[i].hours_total
        t1 == hours_ot_t1(p, upto) - hours_ot_t1(p, before)
        t2 == hours_ot_t2(p, upto) - hours_ot_t2(p, before)
    IN [df[i] EXCEPT !.hours_ot_t1 = t1, !.hours_ot_t2 = t2,
                     !.pay_overtime_t1 = t1 * p.HOURLY_WAGE * p.OVERTIME_T1_BONUS,
                     !.pay_overtime_t2 = t2 * p.HOURLY_WAGE * p.OVERTIME_T2_BONUS]

\* variant: daily overtime counted on the summed hours of the calendar date
add_pay_columns_per_date(p, daily_df) ==
    LET df0 == [i \in 1..Len(daily_df) |-> PayRow(p, daily_df[i])]
        df1 == [i \in 1..Len(df0) |-> PerDateOvertimeRow(p, df0, i)]
        df2 == TravelLoop(p, df1, GroupKeys([i \in 1..Len(df1) |-> df1[i].date], {}))
    IN [i \in 1..Len(df2) |-> [df2[i] EXCEPT !.pay_total_day = PayTotalDay(df2[i])]]

add_pay_columns(p, daily_df) ==
    LET df1 == [i \in 1..Len(daily_df) |-> PayRow(p, daily_df[i])]
        df2 == TravelLoop(p, df1, GroupKeys([i \in 1..Len(df1) |-> df1[i].date], {}))
    IN [i \in 1..Len(df2) |-> [df2[i] EXCEPT !.pay_total_day = PayTotalDay(df2[i])]]

-----------------------------------------------------------------------------
\* Weekly top-up (app.py 318-342)

WEEKLY_THRESHOLD == 42

\* variant: Monday..Sunday weeks whatever the configured week start
week_period_from_monday(d, week_start_str) == d \div 7

\* week_period_series: the W-SAT period (Sunday..Saturday) under "Sunday",
\* the W-SUN period (Monday..Sunday) otherwise; the period's ordinal
week_period(d, week_start_str) ==
    IF week_start_str = "Sunday" THEN (d + 1) \div 7 ELSE d \div 7

\* the index labels of a week's rows, sorted by date (g.sort_values)
RECURSIVE IndexRows(_, _, _, _)
IndexRows(df, i, w, week_start_str) ==
    IF i > Len(df) THEN <<>>
    ELSE (IF week_period(df[i].date, week_start_str) = w
          THEN <<[idx |-> i, date |-> df[i].date]>> ELSE <<>>)
         \o IndexRows(df, i + 1, w, week_start_str)

\* variant: the whole excess goes to the first row of the week
TopupLoop_first_row(p, df, g_sorted, remain) ==
    IF g_sorted = <<>> \/ remain <= 0 THEN df
    ELSE [df EXCEPT ![Head(g_sorted).idx].weekly_topup_125 =
                        @ + remain * p.HOURLY_WAGE * p.OVERTIME_T1_BONUS]

RECURSIVE TopupLoop(_, _, _, _)
TopupLoop(p, df, g_sorted, remain) ==
    IF g_sorted = <<>> \/ remain <= 0 THEN df
    ELSE LET idx == Head(g_sorted).idx
             take == Min(df[idx].hours_regular_day, remain)
         IN TopupLoop(p,
                      [df EXCEPT ![idx].weekly_topup_125 =
                                      @ + take * p.HOURLY_WAGE * p.OVERTIME_T1_BONUS],
                      Tail(g_sorted), remain - take)

RECURSIVE WeekLoop(_, _, _, _, _)
WeekLoop(p, df, weeks, weekly_threshold, week_start_str) ==
    IF weeks = <<>> THEN df
    ELSE LET g_sorted == sort_values(IndexRows(df, 1, Head(weeks), week_start_str))
             total_reg == SumSeq([k \in 1..Len(g_sorted) |->
                                     df[g_sorted[k].idx].hours_regular_day])
             excess == Max(0, total_reg - weekly_threshold)
         IN WeekLoop(p,
                     IF excess <= 0 THEN df ELSE TopupLoop(p, df, g_sorted, excess),
                     Tail(weeks), weekly_threshold, week_start_str)

compute_weekly_overtime_topup(p, daily_df, weekly_threshold, week_start_str) ==
    LET df == [i \in 1..Len(daily_df) |->
                  daily_df[i] @@ [weekly_topup_125 |-> 0, weekly_topup_150 |-> 0,
                                  hours_regular_day |->
                                      Min(daily_df[i].hours_total, p.DAILY_REGULAR_HOURS)]]
        weeks == GroupKeys([i \in 1..Len(df) |-> week_period(df[i].date, week_start_str)], {})
    IN WeekLoop(p, df, weeks, weekly_threshold, week_start_str)

-----------------------------------------------------------------------------
\* Sick pay (app.py 345-389)

\* avg_hours as the fraction num/den of hours (num over HourDen)
avg_hours(p, df) ==
    LET wh == SelectRows(df, [i \in 1..Len(df) |-> df[i].worked_day])
    IN IF p.USE_AVG_HOURS_FOR_SICK /\ Len(wh) > 0
       THEN [num |-> SumCol(wh, "hours_total"), den |-> Len(wh)]
       ELSE [num |-> p.DEFAULT_DAILY_SICK_HOURS, den |-> 1]

\* the dates of the rows whose status is sick and not no-attendance and whose
\* date parses, as a set (sorted(set(sick_dates)) is SortedDates of it)
sick_dates(selected) ==
    {parse_date(selected[i].date) : i \in {k \in 1..Len(selected) :
        /\ is_sick(selected[k].status) /\ ~is_no_att(selected[k].status)
        /\ DateParses(selected[k].date)}}

RECURSIVE SortedDates(_)
SortedDates(S) ==
    IF S = {} THEN <<>>
    ELSE LET m == CHOOSE x \in S : \A y \in S : x <= y
         IN <<m>> \o SortedDates(S \ {m})

\* variant: the tiers one day late
sick_pct_late(k) == IF k <= 2 THEN 0 ELSE IF k \in {3, 4} THEN 50 ELSE 100

\* percent of the averaged daily wage paid on the k-th day of a run
sick_pct(k) == IF k = 1 THEN 0 ELSE IF k \in {2, 3} THEN 50 ELSE 100

\* variant: a run never ends at a gap
RunEnd_any_gap(sd, j) == Len(sd) + 1

\* the inner while: the end j of the run that starts at i
RECURSIVE RunEnd(_, _)
RunEnd(sd, j) ==
    IF j <= Len(sd) /\ sd[j] - sd[j - 1] = 1 THEN RunEnd(sd, j + 1) ELSE j

\* the outer while: pay_map as a sequence of <<date, pay>> in insertion order
RECURSIVE PayMapLoop(_, _, _, _)
PayMapLoop(p, sd, avg, i) ==
    IF i > Len(sd) THEN <<>>
    ELSE LET j == RunEnd(sd, i + 1)
         IN [k \in 1..(j - i) |->
                <<sd[i + k - 1], avg.num * p.HOURLY_WAGE * sick_pct(k)>>]
            \o PayMapLoop(p, sd, avg, j)

SickZeroed == {"pay_base", "pay_evening_bonus", "pay_night_bonus", "pay_weekend_bonus",
               "pay_holiday_bonus", "pay_overtime_t1", "pay_overtime_t2", "travel_pay",
               "pay_total_day", "weekly_topup_125", "weekly_topup_150"}

\* df.loc[date == d, cols] = 0.0 ; df.loc[date == d, "pay_sick"] = pay
SickOverwrite(r, pay) ==
    [c \in DOMAIN r |-> IF c \in SickZeroed THEN 0 ELSE IF c = "pay_sick" THEN pay ELSE r[c]]

\* the row synthesised for a sick date that has no row
SickSynth(d, pay) ==
    [date |-> d, status |-> {"sick"}, is_sick |-> TRUE, holiday |-> FALSE,
     start |-> None, end |-> None, minutes_total |-> 0, minutes_evening |-> 0,
     minutes_night |-> 0, minutes_weekend |-> 0, minutes_holiday |-> 0,
     worked_day |-> FALSE, hours_total |-> 0, hours_evening |-> 0, hours_night |-> 0,
     hours_weekend |-> 0, hours_holiday |-> 0, hours_morning |-> 0,
     hours_ot_t1 |-> 0, hours_ot_t2 |-> 0, pay_base |-> 0, pay_evening_bonus |-> 0,
     pay_night_bonus |-> 0, pay_weekend_bonus |-> 0, pay_holiday_bonus |-> 0,
     pay_overtime_t1 |-> 0, pay_overtime_t2 |-> 0, weekly_topup_125 |-> 0,
     weekly_topup_150 |-> 0, travel_pay |-> 0, pay_total_day |-> 0, pay_sick |-> pay]

RECURSIVE SickApplyLoop(_, _)
SickApplyLoop(df, pay_map) ==
    IF pay_map = <<>> THEN df
    ELSE LET d == Head(pay_map)[1]
             pay == Head(pay_map)[2]
         IN SickApplyLoop(
                IF \E i \in 1..Len(df) : df[i].date = d
                THEN [i \in 1..Len(df) |->
                         IF df[i].date = d THEN SickOverwrite(df[i], pay) ELSE df[i]]
                ELSE Append(df, SickSynth(d, pay)),
                Tail(pay_map))

add_sick_pay(p, daily_df, selected) ==
    LET df0 == [i \in 1..Len(daily_df) |-> daily_df[i] @@ [pay_sick |-> 0]]
        sd == SortedDates(sick_dates(selected))
    IN IF sd = <<>> THEN df0
       ELSE sort_values(SickApplyLoop(df0, PayMapLoop(p, sd, avg_hours(p, daily_df), 1)))

-----------------------------------------------------------------------------
\* Exact arithmetic for the rounded amounts. A mixed number <<w, f>> over e
\* is w + f/e with 0 <= f < e; products are split so that no intermediate
\* value leaves the 32-bit integers.

\* (num/e) * rate as a mixed number over e
MulRate(num, rate, e) ==
    LET q == num \div e
        r == num % e
    IN <<q * rate + (r * rate) \div e, (r * rate) % e>>

AddMixed(a, b, e) == <<a[1] + b[1] + (a[2] + b[2]) \div e, (a[2] + b[2]) % e>>

\* round(x, 2) of an amount whose agorot are the mixed number m over e:
\* to the nearest agora, a tie going to the even one (Python's round)
round2(m, e) ==
    IF 2 * m[2] < e THEN m[1]
    ELSE IF 2 * m[2] > e THEN m[1] + 1
    ELSE IF m[1] % 2 = 0 THEN m[1] ELSE m[1] + 1

-----------------------------------------------------------------------------
\* Taxes (app.py 398-411). An amount x is the fraction num/den of a shekel
\* (den a multiple of 100); results are whole agorot. A bracket is
\* [cap, rate, bounded]: cap in whole shekels (ignored when the cap is
\* float("inf"), bounded = FALSE), rate in percent.

Exceeds(num, den, b) == b.bounded /\ num > b.cap * den

\* variant: last is never advanced to the cap
RECURSIVE TaxLoop_last_kept(_, _, _, _, _, _)
TaxLoop_last_kept(num, den, brackets, i, tax, last) ==
    IF i > Len(brackets) THEN Max(0, round2(tax, den))
    ELSE LET b == brackets[i]
         IN IF Exceeds(num, den, b)
            THEN TaxLoop_last_kept(num, den, brackets, i + 1,
                                   AddMixed(tax, <<(b.cap - last) * b.rate, 0>>, den), last)
            ELSE Max(0, round2(AddMixed(tax, MulRate(num - last * den, b.rate, den), den),
                               den))

\* variant: the whole income at the rate of the bracket it falls in
RECURSIVE TaxLoop_slab(_, _, _, _, _, _)
TaxLoop_slab(num, den, brackets, i, tax, last) ==
    IF i > Len(brackets) THEN Max(0, round2(tax, den))
    ELSE LET b == brackets[i]
         IN IF Exceeds(num, den, b)
            THEN TaxLoop_slab(num, den, brackets, i + 1, tax, b.cap)
            ELSE Max(0, round2(MulRate(num, b.rate, den), den))

\* the for loop over TAX_BRACKETS from bracket i on; tax is a mixed number of
\* agorot over den, last the previous cap
RECURSIVE TaxLoop(_, _, _, _, _, _)
TaxLoop(num, den, brackets, i, tax, last) ==
    IF i > Len(brackets) THEN Max(0, round2(tax, den))
    ELSE LET b == brackets[i]
         IN IF Exceeds(num, den, b)
            THEN TaxLoop(num, den, brackets, i + 1,
                         AddMixed(tax, <<(b.cap - last) * b.rate, 0>>, den), b.cap)
            ELSE Max(0, round2(AddMixed(tax, MulRate(num - last * den, b.rate, den), den),
                               den))

income_tax_before_credit(p, num, den) == TaxLoop(num, den, p.TAX_BRACKETS, 1, <<0, 0>>, 0)

\* CREDIT_POINTS is kept in quarter points, CREDIT_POINT_VALUE in agorot, so
\* tax_before - CREDIT_POINTS*CREDIT_POINT_VALUE is a number of quarter agorot
CreditDen == 4

\* variant: the difference is not floored at zero
apply_credit_points_unfloored(p, tax_before) ==
    LET d == tax_before * CreditDen - p.CREDIT_POINTS * p.CREDIT_POINT_VALUE
    IN round2(<<d \div CreditDen, d % CreditDen>>, CreditDen)

apply_credit_points(p, tax_before) ==
    LET d == tax_before * CreditDen - p.CREDIT_POINTS * p.CREDIT_POINT_VALUE
    IN Max(0, round2(<<d \div CreditDen, d % CreditDen>>, CreditDen))

\* levy and pension rates are kept in tenths of a percent
LevyDen == 1000

\* variant: health charged at the national-insurance rates
ni_health_shared_rates(p, num, den) ==
    LET e == (den * LevyDen) \div 100
        low == Min(num, p.NI_THRESHOLD * den)
        high == Max(0, num - p.NI_THRESHOLD * den)
        ni == AddMixed(MulRate(low, p.NI_LOW, e), MulRate(high, p.NI_HIGH, e), e)
    IN <<round2(ni, e), round2(ni, e)>>

\* ni_health: <<ni, health>> in agorot; NI_THRESHOLD in whole shekels
ni_health(p, num, den) ==
    LET e == (den * LevyDen) \div 100
        low == Min(num, p.NI_THRESHOLD * den)
        high == Max(0, num - p.NI_THRESHOLD * den)
        ni == AddMixed(MulRate(low, p.NI_LOW, e), MulRate(high, p.NI_HIGH, e), e)
        health == AddMixed(MulRate(low, p.HEALTH_LOW, e), MulRate(high, p.HEALTH_HIGH, e), e)
    IN <<round2(ni, e), round2(health, e)>>

-----------------------------------------------------------------------------
\* DEFAULT_PARAMS (app.py 164-177), in the units of the model

DEFAULT_PARAMS ==
    [HOURLY_WAGE |-> 65,
     EVENING_BONUS |-> 20, NIGHT_BONUS |-> 30, WEEKEND_BONUS |-> 50, HOLIDAY_BONUS |-> 50,
     DAILY_TRAVEL |-> 22, SIBUS_MONTHLY |-> 450,
     USE_AVG_HOURS_FOR_SICK |-> TRUE, DEFAULT_DAILY_SICK_HOURS |-> 8 * HourDen,
     OVERTIME_T1_BONUS |-> 25, OVERTIME_T2_BONUS |-> 50,
     DAILY_REGULAR_HOURS |-> 8 * HourDen, DAILY_T1_HOURS |-> 2 * HourDen,
     CREDIT_POINTS |-> 9, CREDIT_POINT_VALUE |-> 23500,
     TAX_BRACKETS |-> <<[cap |-> 6790, rate |-> 10, bounded |-> TRUE],
                        [cap |-> 9720, rate |-> 14, bounded |-> TRUE],
                        [cap |-> 15760, rate |-> 20, bounded |-> TRUE],
                        [cap |-> 21700, rate |-> 31, bounded |-> TRUE],
                        [cap |-> 45180, rate |-> 35, bounded |-> TRUE],
                        [cap |-> 0, rate |-> 47, bounded |-> FALSE]>>,
     NI_THRESHOLD |-> 7570, NI_LOW |-> 4, NI_HIGH |-> 70,
     HEALTH_LOW |-> 31, HEALTH_HIGH |-> 50,
     EMPLOYEE_PENSION_RATE |-> 70, PENSION_BASE_MODE |-> "wage_only",
     OT_BASIS |-> "Daily + Weekly (max)", WEEK_START |-> "Sunday"]

-----------------------------------------------------------------------------
\* process (app.py 413-544)

WageCols == <<"pay_base", "pay_evening_bonus", "pay_night_bonus", "pay_weekend_bonus",
              "pay_holiday_bonus", "pay_overtime_t1", "pay_overtime_t2",
              "pay_weekly_topup">>

\* variant: the day total of the weekly policy without the travel allowance
WeeklyTotalDay_without_travel(base_row, topup_row) ==
    base_row.pay_base + base_row.pay_evening_bonus + base_row.pay_night_bonus
    + base_row.pay_weekend_bonus + base_row.pay_holiday_bonus
    + topup_row.pay_weekly_topup

\* the "Weekly 42h only" day total (430-434); also modelB's total (445-449)
WeeklyTotalDay(base_row, topup_row) ==
    base_row.pay_base + base_row.pay_evening_bonus + base_row.pay_night_bonus
    + base_row.pay_weekend_bonus + base_row.pay_holiday_bonus + base_row.travel_pay
    + topup_row.pay_weekly_topup

\* variant: the comparison the other way round
choose_lower(modelB_total, modelA_total) == modelB_total < modelA_total

\* modelB["pay_total_day_final"] > modelA["pay_total_day_final"]
choose(modelB_total, modelA_total) == modelB_total > modelA_total

\* paid_week["pay_weekly_topup"] = weekly_topup_125 + weekly_topup_150 (420)
PayWeeklyTopup(topped) ==
    [i \in 1..Len(topped) |->
        topped[i] @@ [pay_weekly_topup |->
                          topped[i].weekly_topup_125 + topped[i].weekly_topup_150]]

\* df["pay_weekly_topup"] = 0.0 on a copy that has no such column (423, 438)
ZeroTopup(paid) == [i \in 1..Len(paid) |-> paid[i] @@ [pay_weekly_topup |-> 0]]

\* lines 418-425: paid_week, sick pay included
paid_week_of(p, paid, selected) ==
    add_sick_pay(p,
                 IF p.OT_BASIS \in {"Weekly 42h only", "Daily + Weekly (max)"}
                 THEN PayWeeklyTopup(compute_weekly_overtime_topup(
                          p, paid, WEEKLY_THRESHOLD * HourDen, p.WEEK_START))
                 ELSE ZeroTopup(paid),
                 selected)

\* variant: a day on which the weekly model is chosen takes the weekly
\* model's whole row, its top-up included
MaxModel_whole_row(modelA, modelB, modelB_no_daily) ==
    [i \in 1..Len(modelA) |->
        LET b == WeeklyTotalDay(modelB_no_daily[i], modelB[i])
            a == modelA[i].pay_total_day
        IN IF choose(b, a)
           THEN [modelB[i] EXCEPT !.pay_total_day = b,
                                  !.pay_overtime_t1 = 0, !.pay_overtime_t2 = 0]
           ELSE [modelA[i] EXCEPT !.pay_weekly_topup = 0]]

\* lines 441-455: modelA with the larger of the two day totals, row by row
MaxModel(modelA, modelB, modelB_no_daily) ==
    [i \in 1..Len(modelA) |->
        LET b == WeeklyTotalDay(modelB_no_daily[i], modelB[i])
            a == modelA[i].pay_total_day
        IN [modelA[i] EXCEPT !.pay_total_day = IF choose(b, a) THEN b ELSE a,
                             !.pay_weekly_topup = 0]]

\* lines 427-458: paid_final from paid_week under the configured OT_BASIS
FinalTable(p, paid, selected, paid_week) ==
    IF p.OT_BASIS = "Weekly 42h only"
    THEN [i \in 1..Len(paid_week) |->
             [paid_week[i] EXCEPT !.pay_overtime_t1 = 0, !.pay_overtime_t2 = 0,
                                  !.pay_total_day =
                                      WeeklyTotalDay(paid_week[i], paid_week[i])]]
    ELSE IF p.OT_BASIS = "Daily + Weekly (max)"
    THEN MaxModel(add_sick_pay(p, ZeroTopup(paid), selected), paid_week, paid)
    ELSE [i \in 1..Len(paid_week) |-> [paid_week[i] EXCEPT !.pay_weekly_topup = 0]]

\* lines 418-458: the final day table
paid_final_of(p, paid, selected) ==
    FinalTable(p, paid, selected, paid_week_of(p, paid, selected))

\* variant: the sum without the weekly top-up column
wage_components_without_topup(paid_final, n) ==
    SumSeq([k \in 1..(Len(WageCols) - 1) |-> SumCol(paid_final, WageCols[k])]) * n
    + SumCol(paid_final, "pay_sick")

\* lines 461-471, over the denominator MoneyDen*n
wage_components_of(paid_final, n) ==
    SumSeq([k \in 1..Len(WageCols) |-> SumCol(paid_final, WageCols[k])]) * n
    + SumCol(paid_final, "pay_sick")

Failed(kind) == [status |-> kind]

\* line 480 and the JSON of 524-529, from the four deductions in agorot
NetOf(r, ni, health, tax_before, tax_after) ==
    LET deductions == r.employee_pension + ni + health + tax_after
        net == r.monthly_gross_taxable - deductions * (r.den \div 100)
    IN r @@ [ni |-> ni, health |-> health, tax_before |-> tax_before,
             tax_after |-> tax_after, net |-> net,
             json |-> [gross |-> r.monthly_gross_taxable, net |-> net,
                       deductions_total |-> deductions]]

\* line 479 on
TaxAfter(p, r, nh, tax_before) ==
    NetOf(r, nh[1], nh[2], tax_before, apply_credit_points(p, tax_before))

\* lines 477-480 on the totals r of a run
Deductions(p, r) ==
    TaxAfter(p, r, ni_health(p, r.monthly_gross_taxable, r.den),
             income_tax_before_credit(p, r.monthly_gross_taxable, r.den))

\* lines 460-544 on the tables of a run
Summary(p, selected, daily, paid, paid_final) ==
    LET n == avg_hours(p, paid).den
        den == MoneyDen * n
        wage_components == wage_components_of(paid_final, n)
        travel_sum == SumCol(paid_final, "travel_pay") * n
        monthly_gross_taxable == wage_components + travel_sum + p.SIBUS_MONTHLY * den
        pension_base == IF p.PENSION_BASE_MODE = "include_all"
                        THEN monthly_gross_taxable ELSE wage_components
        e == (den * LevyDen) \div 100
        employee_pension == round2(MulRate(pension_base, p.EMPLOYEE_PENSION_RATE, e), e)
        total_sick_days == Cardinality({i \in 1..Len(paid_final) : paid_final[i].is_sick})
        paid_sick_days == Cardinality({i \in 1..Len(paid_final) :
                              paid_final[i].is_sick /\ paid_final[i].pay_sick > 0})
    IN Deductions(p, [status |-> "ok", selected |-> selected, daily |-> daily,
                      paid |-> paid, paid_final |-> paid_final, den |-> den,
                      wage_components |-> wage_components, travel_sum |-> travel_sum,
                      monthly_gross_taxable |-> monthly_gross_taxable,
                      employee_pension |-> employee_pension,
                      total_sick_days |-> total_sick_days,
                      paid_sick_days |-> paid_sick_days,
                      unpaid_sick_days |-> total_sick_days - paid_sick_days])

\* lines 418-458 on
ProcessPaid(p, selected, daily, paid) ==
    Summary(p, selected, daily, paid, paid_final_of(p, paid, selected))

\* line 416 on
ProcessDaily(p, selected, daily) == ProcessPaid(p, selected, daily, add_pay_columns(p, daily))

\* variant: the empty day table is processed like any other
ProcessSelected_empty_allowed(p, selected) ==
    ProcessDaily(p, selected, compute_daily_rows(selected))

\* line 415 on; sorting the empty frame raises KeyError
ProcessSelected(p, selected) ==
    IF DailyLoop(selected) = <<>> THEN Failed("KeyError")
    ELSE ProcessDaily(p, selected, compute_daily_rows(selected))

\* variant: the rows of the previous call are kept and processed again
process_keeping_rows(p, df_in) ==
    IF MissingColumns(df_in) # <<>> THEN ValueError(Head(MissingColumns(df_in)))
    ELSE ProcessSelected(p, (IF res.status = "ok" THEN res.selected ELSE <<>>)
                                \o load_attendance_from_csv(df_in))

process(p, df_in) ==
    IF MissingColumns(df_in) # <<>> THEN ValueError(Head(MissingColumns(df_in)))
    ELSE ProcessSelected(p, load_attendance_from_csv(df_in))

-----------------------------------------------------------------------------
\* The configurations and input rows of the model

Policies == {"Daily only", "Weekly 42h only", "Daily + Weekly (max)"}

\* the sidebar's defaults, and a configuration with long regular days (so
\* that a short table exceeds the weekly threshold), each under every policy
LONG_PARAMS ==
    [DEFAULT_PARAMS EXCEPT !.DAILY_REGULAR_HOURS = 16 * HourDen, !.DAILY_T1_HOURS = HourDen,
                           !.WEEK_START = "Monday", !.PENSION_BASE_MODE = "include_all"]

ParamChoices ==
    {[q EXCEPT !.OT_BASIS = b] : q \in {DEFAULT_PARAMS, LONG_PARAMS}, b \in Policies}

Dates == FirstDay..LastDay

Clock(m) == [text |-> "hhmm", minute |-> m]
EmptyCell == [text |-> "", minute |-> 0]
DateCell(d) == [text |-> "dmy", day |-> d]

\* worked shifts: 00:00-16:00 (16 h) and 22:00-16:00 (overnight, 18 h)
Shifts == {<<0, 16 * 60>>, <<22 * 60, 16 * 60>>}

InputRows ==
    {[date |-> DateCell(d), status |-> {}, t_in |-> Clock(sh[1]), t_out |-> Clock(sh[2])] :
        d \in Dates, sh \in Shifts}
    \cup {[date |-> DateCell(d), status |-> {"sick"}, t_in |-> EmptyCell, t_out |-> EmptyCell] :
        d \in Dates}

-----------------------------------------------------------------------------
\* The state machine: the table is edited row by row (the data editor of
\* step 2, app.py 711-717), then process runs on it (app.py 757).

NoResult == [status |-> "none"]

\* a slot of the flow state that holds no table (Python's None)
NoTable == [none |-> TRUE]

\* the flow state when a session starts (627-629)
NoSession == [step |-> 1, input_df_raw |-> NoTable, input_df_edited |-> NoTable]

Init ==
    /\ params \in ParamChoices
    /\ csv_df = Frame(<<>>)
    /\ pc = "edit"
    /\ session_state = NoSession
    /\ res = NoResult

AppendRow ==
    /\ pc = "edit"
    /\ Len(csv_df.rows) < MaxRows
    /\ \E r \in InputRows : csv_df' = [csv_df EXCEPT !.rows = Append(@, r)]
    /\ UNCHANGED <<params, pc, res, session_state>>

RunProcess ==
    /\ pc = "edit"
    /\ res' = process(params, csv_df)
    /\ pc' = "done"
    /\ UNCHANGED <<params, csv_df, session_state>>

Next == AppendRow \/ RunProcess

Spec == Init /\ [][Next]_vars

-----------------------------------------------------------------------------
\* add_pay_columns on its own: one worked row of every whole number of hours
\* from 1 to 24, under every pair of overtime thresholds of the choices below

MaxRegular == 9     \* largest DAILY_REGULAR_HOURS tried, in hours
MaxT1 == 3          \* largest DAILY_T1_HOURS tried, in hours

PayParamChoices ==
    {[DEFAULT_PARAMS EXCEPT !.DAILY_REGULAR_HOURS = reg * HourDen,
                            !.DAILY_T1_HOURS = t1 * HourDen] :
        reg \in 0..MaxRegular, t1 \in 0..MaxT1}

PayInputs ==
    {<<[date |-> DateCell(FirstDay), status |-> {}, t_in |-> Clock(0),
        t_out |-> Clock((h * 60) % DayMinutes)]>> : h \in 1..24}

InitPay ==
    /\ params \in PayParamChoices
    /\ csv_df \in {Frame(rows) : rows \in PayInputs}
    /\ pc = "edit"
    /\ session_state = NoSession
    /\ res = NoResult

SpecPay == InitPay /\ [][RunProcess]_vars

Done == pc = "done" /\ res.status = "ok"

\* C1: every row produced by add_pay_columns has hours_ot_t1 + hours_ot_t2 =
\* max(0, hours_total - DAILY_REGULAR_HOURS), hours_ot_t1 <= DAILY_T1_HOURS,
\* and both tiers >= 0.
C1_OvertimeSplit ==
    Done => \A i \in 1..Len(res.paid) :
        LET r == res.paid[i]
        IN /\ r.hours_ot_t1 + r.hours_ot_t2
                = Max(0, r.hours_total - params.DAILY_REGULAR_HOURS)
           /\ r.hours_ot_t1 <= params.DAILY_T1_HOURS
           /\ r.hours_ot_t1 >= 0
           /\ r.hours_ot_t2 >= 0

\* a row whose overtime fills tier 1 and spills into tier 2
C1_Witness ==
    /\ Done
    /\ \E i \in 1..Len(res.paid) :
        /\ res.paid[i].hours_ot_t1 = params.DAILY_T1_HOURS
        /\ res.paid[i].hours_ot_t1 > 0
        /\ res.paid[i].hours_ot_t2 > 0

\* C10: after add_pay_columns the travel allowance of a date is DAILY_TRAVEL
\* if the date has a worked, non-sick row and 0 otherwise, and it sits on the
\* first such row of the date, every other row of the date having 0.
C10_TravelOncePerDate ==
    Done => \A d \in {res.paid[i].date : i \in 1..Len(res.paid)} :
        LET rows == {i \in 1..Len(res.paid) : res.paid[i].date = d}
            elig == {i \in rows : res.paid[i].worked_day /\ ~res.paid[i].is_sick}
            travel == params.DAILY_TRAVEL * MoneyDen
        IN /\ SumSeq([i \in 1..Len(res.paid) |->
                         IF i \in rows THEN res.paid[i].travel_pay ELSE 0])
                = IF elig = {} THEN 0 ELSE travel
           /\ \A i \in rows :
                res.paid[i].travel_pay
                    = IF i \in elig /\ \A j \in elig : i <= j THEN travel ELSE 0

\* a date split into two worked segments, and a date with no worked row
C10_Witness ==
    /\ Done
    /\ \E i, j \in 1..Len(res.paid) :
        /\ i < j /\ res.paid[i].date = res.paid[j].date
        /\ res.paid[i].worked_day /\ res.paid[j].worked_day
        /\ res.paid[i].travel_pay > 0
    /\ \E k \in 1..Len(res.paid) : res.paid[k].is_sick

\* C2: under "Daily + Weekly (max)" every row's pay_total_day is >= the
\* pay_total_day process gives that row under "Daily only" and under
\* "Weekly 42h only" (same input, same other parameters).
C2_MaxDominates ==
    (Done /\ params.OT_BASIS = "Daily + Weekly (max)") =>
        LET daily == paid_final_of([params EXCEPT !.OT_BASIS = "Daily only"],
                                   res.paid, res.selected)
            weekly == paid_final_of([params EXCEPT !.OT_BASIS = "Weekly 42h only"],
                                    res.paid, res.selected)
        IN /\ Len(daily) = Len(res.paid_final)
           /\ Len(weekly) = Len(res.paid_final)
           /\ \A i \in 1..Len(res.paid_final) :
                /\ res.paid_final[i].date = daily[i].date
                /\ res.paid_final[i].date = weekly[i].date
                /\ res.paid_final[i].pay_total_day >= daily[i].pay_total_day
                /\ res.paid_final[i].pay_total_day >= weekly[i].pay_total_day

\* a table where the weekly model wins on one row and the daily model on another
C2_Witness ==
    /\ Done /\ params.OT_BASIS = "Daily + Weekly (max)"
    /\ LET daily == paid_final_of([params EXCEPT !.OT_BASIS = "Daily only"],
                                  res.paid, res.selected)
           weekly == paid_final_of([params EXCEPT !.OT_BASIS = "Weekly 42h only"],
                                   res.paid, res.selected)
       IN /\ \E i \in 1..Len(res.paid_final) :
                /\ res.paid_final[i].date \notin sick_dates(res.selected)
                /\ res.paid[i].pay_overtime_t1 > 0
                /\ res.paid_final[i].pay_total_day > daily[i].pay_total_day
          /\ \E j \in 1..Len(res.paid_final) :
                res.paid_final[j].pay_total_day > weekly[j].pay_total_day

\* C9: gross taxable = (sum of the base, evening, night, weekend, holiday,
\* overtime t1/t2, weekly top-up and sick pay columns of the final table)
\* + sum of travel_pay + SIBUS_MONTHLY; net = gross - (pension + NI + health
\* + tax after credit); and in the JSON summary gross - net = deductions_total.
C9_GrossNetIdentity ==
    Done =>
        LET t == res.paid_final
            n == res.den \div MoneyDen
            agora == res.den \div 100
            cols == SumSeq([i \in 1..Len(t) |->
                        t[i].pay_base + t[i].pay_evening_bonus + t[i].pay_night_bonus
                        + t[i].pay_weekend_bonus + t[i].pay_holiday_bonus
                        + t[i].pay_overtime_t1 + t[i].pay_overtime_t2
                        + t[i].pay_weekly_topup])
            sick == SumSeq([i \in 1..Len(t) |-> t[i].pay_sick])
            travel == SumSeq([i \in 1..Len(t) |-> t[i].travel_pay])
        IN /\ res.monthly_gross_taxable
                = cols * n + sick + travel * n + params.SIBUS_MONTHLY * res.den
           /\ res.net = res.monthly_gross_taxable
                - (res.employee_pension + res.ni + res.health + res.tax_after) * agora
           /\ res.json.gross - res.json.net = res.json.deductions_total * agora

\* a month with weekly top-up, travel and income tax left to pay after credit
C9_Witness ==
    /\ Done
    /\ \E i \in 1..Len(res.paid_final) : res.paid_final[i].pay_weekly_topup > 0
    /\ res.travel_sum > 0
    /\ res.tax_after > 0
    /\ res.net < res.monthly_gross_taxable

\* the rank of sick date d inside its run of consecutive sick dates S
SickRank(d, S) == CHOOSE k \in 1..(Cardinality(S)) :
    /\ \A m \in 0..(k - 1) : d - m \in S
    /\ d - k \notin S

\* the tier amount of sick date d (over the denominator MoneyDen * n)
TierAmount(d, S, avg_num, wage) ==
    LET k == SickRank(d, S)
    IN avg_num * wage * (IF k = 1 THEN 0 ELSE IF k <= 3 THEN 50 ELSE 100)

\* mean hours_total of the worked rows, or the fallback: the numerator over
\* the number of worked rows (over 1 with the fallback)
AvgNum(t, p) ==
    LET w == {i \in 1..Len(t) : t[i].worked_day}
    IN IF w = {} THEN p.DEFAULT_DAILY_SICK_HOURS
       ELSE SumSeq([i \in 1..Len(t) |-> IF i \in w THEN t[i].hours_total ELSE 0])

\* C4: the total sick pay entering gross (sum of pay_sick over the final day
\* table) equals the sum over the DISTINCT sick dates of the input of the
\* date's tier amount: each sick date is paid exactly once, also when the
\* input holds several rows for that date.
C4_SickDatePaidOnce ==
    Done =>
        LET S == sick_dates(res.selected)
            sd == SortedDates(S)
        IN SumSeq([i \in 1..Len(res.paid_final) |-> res.paid_final[i].pay_sick])
            = SumSeq([k \in 1..Len(sd) |->
                        TierAmount(sd[k], S, AvgNum(res.paid, params), params.HOURLY_WAGE)])

-----------------------------------------------------------------------------
\* add_sick_pay on tables of sick rows: one sick row for each date of a set
\* of dates, in ascending or descending order, alone or followed by worked
\* rows (none, one of 8 h, or one of 8 h and one of 10 h)

MaxSickSpan == 6    \* the sick dates lie in FirstDay .. FirstDay + MaxSickSpan

SickDays == FirstDay..(FirstDay + MaxSickSpan)

SickInputRow(d) ==
    [date |-> DateCell(d), status |-> {"sick"}, t_in |-> EmptyCell, t_out |-> EmptyCell]

WorkedInputRow(d, t_in, t_out) ==
    [date |-> DateCell(d), status |-> {}, t_in |-> Clock(t_in), t_out |-> Clock(t_out)]

Reverse(s) == [i \in 1..Len(s) |-> s[Len(s) + 1 - i]]

WorkedTails ==
    {<<>>,
     <<WorkedInputRow(FirstDay + MaxSickSpan + 1, 9 * 60, 17 * 60)>>,
     <<WorkedInputRow(FirstDay + MaxSickSpan + 1, 9 * 60, 17 * 60),
       WorkedInputRow(FirstDay + 1, 9 * 60, 19 * 60)>>}

SickTables ==
    {rows \o tail :
        rows \in UNION {{[i \in 1..Len(SortedDates(S)) |-> SickInputRow(SortedDates(S)[i])],
                         Reverse([i \in 1..Len(SortedDates(S)) |->
                                     SickInputRow(SortedDates(S)[i])])} :
                        S \in (SUBSET SickDays) \ {{}}},
        tail \in WorkedTails}

InitSick ==
    /\ params \in {DEFAULT_PARAMS, [DEFAULT_PARAMS EXCEPT !.OT_BASIS = "Daily only"]}
    /\ csv_df \in {Frame(rows) : rows \in SickTables}
    /\ pc = "edit"
    /\ session_state = NoSession
    /\ res = NoResult

SpecSick == InitSick /\ [][RunProcess]_vars

\* the pay_sick assigned to each sick date, in date order
SickPays(t, S) ==
    LET sd == SortedDates(S)
    IN [k \in 1..Len(sd) |-> t[CHOOSE i \in 1..Len(t) : t[i].date = sd[k]].pay_sick]

\* C3: add_sick_pay gives each sick date pct x avg_hours x HOURLY_WAGE, pct
\* depending only on the date's rank k in its maximal run of consecutive
\* sick dates (1 -> 0, 2..3 -> 50%, >= 4 -> 100%; a gap of two days or more
\* restarts the rank), avg_hours being the mean hours_total of the worked
\* rows or the fallback; so a run of 5 gives [0, 50, 50, 100, 100] % and 4
\* consecutive dates at an average of 8 h and a rate of 65 give
\* [0, 260, 260, 520].
C3_SickTiers ==
    Done =>
        LET S == sick_dates(res.selected)
            t == res.paid_final
            avg == AvgNum(res.paid, params)
            n == res.den \div MoneyDen
            unit == avg * params.HOURLY_WAGE
        IN /\ \A i \in 1..Len(t) :
                t[i].pay_sick = IF t[i].date \in S
                                THEN TierAmount(t[i].date, S, avg, params.HOURLY_WAGE)
                                ELSE 0
           /\ n = IF \E i \in 1..Len(res.paid) : res.paid[i].worked_day
                  THEN Cardinality({i \in 1..Len(res.paid) : res.paid[i].worked_day})
                  ELSE 1
           /\ (\E d \in S : S = d..(d + 4))
                => SickPays(t, S) = <<0, 50 * unit, 50 * unit, 100 * unit, 100 * unit>>
           /\ ((\E d \in S : S = d..(d + 3)) /\ avg = 8 * HourDen * n
                    /\ params.HOURLY_WAGE = 65)
                => SickPays(t, S) = <<0, 260 * res.den, 260 * res.den, 520 * res.den>>

\* a run of five sick dates paid from the average of two worked rows
C3_Witness ==
    /\ Done
    /\ res.den = 2 * MoneyDen
    /\ \E d \in sick_dates(res.selected) : sick_dates(res.selected) = d..(d + 4)
    /\ \E i \in 1..Len(res.paid_final) : res.paid_final[i].pay_sick > 0

-----------------------------------------------------------------------------
\* The deduction functions on their own (app.py 477-479 applied to a gross
\* amount): amounts around every bracket cap and levy threshold, in steps of
\* a shekel, an agora and 1/60 agora, under the default tables and under a
\* small table with another credit value.

TaxSpread == 2      \* steps taken on each side of a cap or threshold

SMALL_TAX_PARAMS ==
    [DEFAULT_PARAMS EXCEPT
        !.TAX_BRACKETS = <<[cap |-> 10, rate |-> 10, bounded |-> TRUE],
                           [cap |-> 25, rate |-> 35, bounded |-> TRUE],
                           [cap |-> 0, rate |-> 47, bounded |-> FALSE]>>,
        !.CREDIT_POINTS = 1, !.CREDIT_POINT_VALUE = 510,
        !.NI_THRESHOLD = 20, !.NI_LOW = 4, !.NI_HIGH = 75]

TaxParamChoices ==
    {DEFAULT_PARAMS, SMALL_TAX_PARAMS,
     [DEFAULT_PARAMS EXCEPT !.CREDIT_POINT_VALUE = 23510]}

\* the caps of the brackets, in shekels
Caps(p) == {p.TAX_BRACKETS[i].cap : i \in {k \in 1..Len(p.TAX_BRACKETS) :
                                              p.TAX_BRACKETS[k].bounded}}

TaxInputs(p) ==
    {c * MoneyDen + j * u : c \in Caps(p) \cup {0, p.NI_THRESHOLD},
                            j \in (-TaxSpread)..TaxSpread,
                            u \in {1, MoneyDen \div 100, MoneyDen}}

InitTax ==
    /\ params \in TaxParamChoices
    /\ csv_df = Frame(<<>>)
    /\ pc = "gross"
    /\ session_state = NoSession
    /\ \E x \in TaxInputs(params) : res = [status |-> "gross", x |-> x]

\* lines 477-479 on the gross amount x (over MoneyDen)
Deduct ==
    /\ pc = "gross"
    /\ LET nh == ni_health(params, res.x, MoneyDen)
           tax_before == income_tax_before_credit(params, res.x, MoneyDen)
       IN res' = [status |-> "deducted", x |-> res.x, ni |-> nh[1], health |-> nh[2],
                  tax_before |-> tax_before,
                  tax_after |-> apply_credit_points(params, tax_before)]
    /\ pc' = "deducted"
    /\ UNCHANGED <<params, csv_df, session_state>>

SpecTax == InitTax /\ [][Deduct]_vars

Deducted == pc = "deducted"

\* the lower bound cap_{i-1} of bracket i (cap_0 = 0), in shekels
LowerCap(p, i) == IF i = 1 THEN 0 ELSE p.TAX_BRACKETS[i - 1].cap

\* sum over the brackets i with cap_{i-1} < x of rate_i * (min(x, cap_i) - cap_{i-1}),
\* as a mixed number of agorot over den
RECURSIVE BracketSum(_, _, _, _)
BracketSum(p, num, den, i) ==
    IF i = 0 THEN <<0, 0>>
    ELSE LET b == p.TAX_BRACKETS[i]
             lo == LowerCap(p, i) * den
             hi == IF b.bounded /\ b.cap * den < num THEN b.cap * den ELSE num
         IN AddMixed(BracketSum(p, num, den, i - 1),
                     IF lo < num THEN MulRate(hi - lo, b.rate, den) ELSE <<0, 0>>, den)

\* sum_{i <= k} (cap_i - cap_{i-1}) * rate_i, in agorot
RECURSIVE FullBrackets(_, _)
FullBrackets(p, k) ==
    IF k = 0 THEN 0
    ELSE FullBrackets(p, k - 1)
         + (p.TAX_BRACKETS[k].cap - LowerCap(p, k)) * p.TAX_BRACKETS[k].rate

\* C5: for x >= 0, income_tax_before_credit(x) is the sum over the brackets
\* i with cap_{i-1} < x of rate_i x (min(x, cap_i) - cap_{i-1}), rounded to 2
\* decimals; at x = cap_k it is sum_{i<=k} (cap_i - cap_{i-1}) x rate_i.
C5_BracketFormula ==
    (Deducted /\ res.x >= 0) =>
        /\ res.tax_before
            = round2(BracketSum(params, res.x, MoneyDen, Len(params.TAX_BRACKETS)), MoneyDen)
        /\ \A k \in 1..Len(params.TAX_BRACKETS) :
            (params.TAX_BRACKETS[k].bounded /\ res.x = params.TAX_BRACKETS[k].cap * MoneyDen)
                => res.tax_before = FullBrackets(params, k)

\* an income exactly at the cap of a bracket that is not the first
C5_Witness ==
    /\ Deducted
    /\ \E k \in 2..Len(params.TAX_BRACKETS) :
        /\ params.TAX_BRACKETS[k].bounded
        /\ res.x = params.TAX_BRACKETS[k].cap * MoneyDen
    /\ res.tax_before > 0

\* the units an amount moves by: 1/60 agora, an agora, a shekel
Units == {1, MoneyDen \div 100, MoneyDen}

\* C6: with non-negative rates the tax before credit is monotone in the
\* income, never negative (also for an income <= 0), and one unit above a
\* cap it exceeds the tax at the cap by at most the unit times the next
\* bracket's rate, up to the rounding to an agora.
C6_TaxMonotone ==
    Deducted =>
        /\ res.tax_before >= 0
        /\ \A y \in TaxInputs(params) :
            res.x <= y => res.tax_before <= income_tax_before_credit(params, y, MoneyDen)
        /\ \A k \in 1..(Len(params.TAX_BRACKETS) - 1) :
            (params.TAX_BRACKETS[k].bounded /\ res.x = params.TAX_BRACKETS[k].cap * MoneyDen)
                => \A u \in Units :
                    income_tax_before_credit(params, res.x + u, MoneyDen) - res.tax_before
                        <= (u * params.TAX_BRACKETS[k + 1].rate) \div MoneyDen + 1

\* an income at a cap whose neighbour one shekel above pays strictly more
C6_Witness ==
    /\ Deducted
    /\ \E k \in 1..(Len(params.TAX_BRACKETS) - 1) :
        /\ params.TAX_BRACKETS[k].bounded
        /\ res.x = params.TAX_BRACKETS[k].cap * MoneyDen
    /\ res.tax_before > 0
    /\ income_tax_before_credit(params, res.x + MoneyDen, MoneyDen) > res.tax_before

\* CREDIT_POINTS x CREDIT_POINT_VALUE in quarter agorot
Credit(p) == p.CREDIT_POINTS * p.CREDIT_POINT_VALUE

\* C7 as stated: tax after credit is max(0, t - credit) exactly, the credit
\* granted never exceeds the credit and equals it when t >= credit.
C7_CreditExact ==
    Deducted =>
        /\ res.tax_after * CreditDen = Max(0, res.tax_before * CreditDen - Credit(params))
        /\ res.tax_after >= 0
        /\ res.tax_after <= res.tax_before
        /\ (res.tax_before - res.tax_after) * CreditDen <= Credit(params)
        /\ (res.tax_before * CreditDen >= Credit(params))
            => (res.tax_before - res.tax_after) * CreditDen = Credit(params)

\* C7 amended: tax after credit is max(0, t - credit) rounded to the agora;
\* it lies between 0 and the tax before credit, is 0 when t < credit, and
\* when t >= credit the credit granted is within half an agora of the
\* credit, equal to it when the credit is a whole number of agorot.
C7_CreditRounded ==
    Deducted =>
        LET granted == (res.tax_before - res.tax_after) * CreditDen
        IN /\ res.tax_after >= 0
           /\ res.tax_after <= res.tax_before
           /\ (res.tax_before * CreditDen < Credit(params)) => res.tax_after = 0
           /\ (res.tax_before * CreditDen >= Credit(params))
                => /\ granted - Credit(params) <= CreditDen \div 2
                   /\ Credit(params) - granted <= CreditDen \div 2
           /\ (Credit(params) % CreditDen = 0)
                => res.tax_after * CreditDen
                    = Max(0, res.tax_before * CreditDen - Credit(params))

\* a tax above a credit that is not a whole number of agorot
C7_Witness ==
    /\ Deducted
    /\ Credit(params) % CreditDen # 0
    /\ res.tax_before * CreditDen > Credit(params)
    /\ res.tax_after > 0

\* C8: for g >= 0 both levies charge the part of g up to NI_THRESHOLD at
\* their low rate and the part above it at their high rate, each levy with
\* its own rates, rounded to 2 decimals; up to and at the threshold only the
\* low rate applies.
C8_LevySplit ==
    (Deducted /\ res.x >= 0) =>
        LET e == (MoneyDen * LevyDen) \div 100
            thr == params.NI_THRESHOLD * MoneyDen
            levy(lo, hi) ==
                IF res.x <= thr THEN round2(MulRate(res.x, lo, e), e)
                ELSE round2(AddMixed(MulRate(thr, lo, e), MulRate(res.x - thr, hi, e), e), e)
        IN /\ res.ni = levy(params.NI_LOW, params.NI_HIGH)
           /\ res.health = levy(params.HEALTH_LOW, params.HEALTH_HIGH)
           /\ Min(res.x, thr) + Max(0, res.x - thr) = res.x

\* a gross above the threshold, where the two levies differ
C8_Witness ==
    /\ Deducted
    /\ res.x > params.NI_THRESHOLD * MoneyDen
    /\ res.ni > 0
    /\ res.health > res.ni

-----------------------------------------------------------------------------
\* The segmenter on every kind of row: one row of any date cell, status and
\* clock cells, alone or next to a plain worked row (above it, so that a
\* blank date is filled forward, or below it).

RowDays == {FirstDay - 1, FirstDay, LastDay}

DateCells ==
    {DateCell(d) : d \in RowDays}
    \cup {[text |-> t, day |-> 0] : t \in {"", ".", "junk"}}

\* 00:00, 07:30, 09:00, 16:00, 19:00, 22:00
ClockTimes == {0, T_07_30, 9 * 60, T_16_00, 19 * 60, 22 * 60}

ClockCells ==
    {Clock(m) : m \in ClockTimes}
    \cup {[text |-> t, minute |-> 0] : t \in {"", ".", "-", "junk"}}

StatusTexts == SUBSET {"sick", "no_att", "holiday"}

RichRows == [date : DateCells, status : StatusTexts, t_in : ClockCells, t_out : ClockCells]

PlainRow == WorkedInputRow(FirstDay, 9 * 60, 17 * 60)

RowTables == UNION {{<<r>>, <<PlainRow, r>>, <<r, PlainRow>>} : r \in RichRows}

InitRows ==
    /\ params \in {DEFAULT_PARAMS, [DEFAULT_PARAMS EXCEPT !.OT_BASIS = "Daily only"]}
    /\ csv_df \in {Frame(rows) : rows \in RowTables}
    /\ pc = "edit"
    /\ session_state = NoSession
    /\ res = NoResult

SpecRows == InitRows /\ [][RunProcess]_vars

\* the rows of the input table after the forward fill
Filled == load_attendance_from_csv(csv_df)

\* process ran on a table with all its columns
Ran == pc = "done" /\ res.status \in {"ok", "KeyError"}

\* C11: a row whose status contains the no-attendance keyword produces no
\* row in the day table and no sick date, also when its status contains the
\* sick keyword and when it carries valid clock times.
C11_NoAttendanceDropped ==
    Ran =>
        /\ \A i \in 1..Len(Filled) :
            "no_att" \in Filled[i].status => DailyRowsOf(Filled[i]) = <<>>
        /\ \A d \in sick_dates(Filled) :
            \E i \in 1..Len(Filled) :
                /\ Filled[i].date = DateCell(d)
                /\ "sick" \in Filled[i].status
                /\ "no_att" \notin Filled[i].status
        /\ Done =>
            /\ Len(res.daily) = SumSeq([i \in 1..Len(Filled) |-> Len(DailyRowsOf(Filled[i]))])
            /\ Len(res.paid_final)
                <= Cardinality({i \in 1..Len(Filled) : "no_att" \notin Filled[i].status})
            /\ res.total_sick_days
                <= Cardinality({i \in 1..Len(Filled) :
                       "sick" \in Filled[i].status /\ "no_att" \notin Filled[i].status})

\* a sick, no-attendance row with a date and both clock times, next to a
\* worked row: the day table holds the worked row alone
C11_Witness ==
    /\ Done
    /\ \E i \in 1..Len(Filled) :
        /\ {"sick", "no_att"} \subseteq Filled[i].status
        /\ Filled[i].date.text = "dmy"
        /\ Filled[i].t_in.text = "hhmm" /\ Filled[i].t_out.text = "hhmm"
    /\ Len(res.paid_final) = 1
    /\ res.total_sick_days = 0

\* the input rows that reach the clock arithmetic of 270-273: not
\* no-attendance, date parsed, not sick, both clock cells parsed
Clocked(r) ==
    /\ "no_att" \notin r.status /\ "sick" \notin r.status
    /\ r.date.text = "dmy"
    /\ r.t_in.text = "hhmm" /\ r.t_out.text = "hhmm"

\* C12: a retained worked row starts at date + clock-in and ends at date +
\* clock-out, plus exactly one day when clock-out <= clock-in; so
\* 0 < minutes_total <= 1440, equal clocks make a 24-hour shift, and every
\* row with usable clocks is retained (the duration rejection never fires).
C12_OvernightRollsOnce ==
    Done =>
        /\ \A k \in 1..Len(res.daily) :
            res.daily[k].worked_day =>
                /\ res.daily[k].minutes_total = res.daily[k].end - res.daily[k].start
                /\ res.daily[k].minutes_total > 0
                /\ res.daily[k].minutes_total <= DayMinutes
                /\ \E i \in 1..Len(Filled) :
                    LET r == Filled[i]
                        day == r.date.day * DayMinutes
                    IN /\ Clocked(r)
                       /\ r.date.day = res.daily[k].date
                       /\ res.daily[k].start = day + r.t_in.minute
                       /\ res.daily[k].end =
                            IF r.t_out.minute > r.t_in.minute THEN day + r.t_out.minute
                            ELSE day + r.t_out.minute + DayMinutes
                       /\ (r.t_in.minute = r.t_out.minute)
                            => res.daily[k].minutes_total = DayMinutes
        /\ Cardinality({k \in 1..Len(res.daily) : res.daily[k].worked_day})
            = Cardinality({i \in 1..Len(Filled) : Clocked(Filled[i])})

\* an overnight row (22:00 to 07:30) retained, ending on the next day
C12_Witness ==
    /\ Done
    /\ \E k \in 1..Len(res.daily) :
        /\ res.daily[k].worked_day
        /\ res.daily[k].start % DayMinutes = 22 * 60
        /\ res.daily[k].end = res.daily[k].start + 9 * 60 + 30
        /\ DateOf(res.daily[k].end) = res.daily[k].date + 1

\* C13: in every row of compute_daily_rows each of minutes_evening,
\* minutes_night, minutes_weekend and minutes_holiday lies between 0 and
\* minutes_total; minutes_holiday is 0 or minutes_total; a sick row has all
\* five counts 0.
C13_BucketsWithinTotal ==
    Done =>
        \A k \in 1..Len(res.daily) :
            LET r == res.daily[k]
            IN /\ \A c \in {"minutes_evening", "minutes_night", "minutes_weekend",
                            "minutes_holiday"} : r[c] >= 0 /\ r[c] <= r.minutes_total
               /\ r.minutes_holiday \in {0, r.minutes_total}
               /\ r.is_sick =>
                    /\ r.minutes_total = 0 /\ r.minutes_evening = 0 /\ r.minutes_night = 0
                    /\ r.minutes_weekend = 0 /\ r.minutes_holiday = 0

\* a holiday shift inside the weekend window and the evening window at once:
\* three buckets equal the total
C13_Witness ==
    /\ Done
    /\ \E k \in 1..Len(res.daily) :
        /\ res.daily[k].worked_day
        /\ res.daily[k].minutes_evening = res.daily[k].minutes_total
        /\ res.daily[k].minutes_weekend = res.daily[k].minutes_total
        /\ res.daily[k].minutes_holiday = res.daily[k].minutes_total

\* the scenario of C14: the default configuration under "Daily only" and a
\* table of one row, a non-holiday workday 09:00-19:00 on a Monday..Thursday
Workday_09_19 ==
    /\ Done
    /\ params = [DEFAULT_PARAMS EXCEPT !.OT_BASIS = "Daily only"]
    /\ Len(csv_df.rows) = 1
    /\ csv_df.rows[1].status = {}
    /\ csv_df.rows[1].date.text = "dmy" /\ weekday(csv_df.rows[1].date.day) \in 0..3
    /\ csv_df.rows[1].t_in = Clock(9 * 60) /\ csv_df.rows[1].t_out = Clock(19 * 60)

\* C14 as stated: the day yields hours_ot_t1 = 2, hours_ot_t2 = 0,
\* pay_base = 650, pay_overtime_t1 = 32.5, travel_pay = 22 and
\* pay_total_day = 704.5.
C14_TotalWithoutBonus ==
    Workday_09_19 =>
        LET r == res.paid_final[1]
        IN /\ r.hours_ot_t1 = 2 * HourDen /\ r.hours_ot_t2 = 0
           /\ r.pay_base = 650 * MoneyDen
           /\ 2 * r.pay_overtime_t1 = 65 * MoneyDen
           /\ r.travel_pay = 22 * MoneyDen
           /\ 2 * r.pay_total_day = 1409 * MoneyDen

\* C14 amended: the three hours from 16:00 to 19:00 are evening hours, so
\* the day also yields pay_evening_bonus = 3 x 65 x 0.20 = 39 and
\* pay_total_day = 650 + 39 + 32.5 + 22 = 743.5; the other values are as stated.
C14_TotalWithEvening ==
    Workday_09_19 =>
        LET r == res.paid_final[1]
        IN /\ r.hours_ot_t1 = 2 * HourDen /\ r.hours_ot_t2 = 0
           /\ r.pay_base = 650 * MoneyDen
           /\ 2 * r.pay_overtime_t1 = 65 * MoneyDen
           /\ r.travel_pay = 22 * MoneyDen
           /\ r.hours_evening = 3 * HourDen
           /\ r.pay_evening_bonus = 39 * MoneyDen
           /\ r.pay_night_bonus = 0 /\ r.pay_weekend_bonus = 0 /\ r.pay_holiday_bonus = 0
           /\ 2 * r.pay_total_day = 1487 * MoneyDen
           /\ res.paid[1].pay_total_day = r.pay_total_day

\* the scenario itself, run to its result
C14_Witness == Workday_09_19 /\ res.paid_final[1].minutes_total = 10 * HourDen

\* C15: in the final day table, under each OT_BASIS, every row whose date is
\* a sick date has pay_base, the four bonus pays, pay_overtime_t1/t2,
\* travel_pay, pay_weekly_topup and pay_total_day equal to 0, also when the
\* date has a worked row.
C15_SickDateZeroed ==
    Done =>
        \A i \in 1..Len(res.paid_final) :
            res.paid_final[i].date \in sick_dates(res.selected) =>
                \A c \in {"pay_base", "pay_evening_bonus", "pay_night_bonus",
                          "pay_weekend_bonus", "pay_holiday_bonus", "pay_overtime_t1",
                          "pay_overtime_t2", "travel_pay", "pay_weekly_topup",
                          "pay_total_day"} : res.paid_final[i][c] = 0

\* the first dates of the runs of consecutive dates in S
RunStarts(S) == {d \in S : d - 1 \notin S}

\* C16: with one row per sick date and avg_hours x HOURLY_WAGE > 0,
\* total_sick_days is the number of distinct sick dates, unpaid_sick_days the
\* number of sick runs, paid_sick_days the rest; the three are >= 0 and
\* total = paid + unpaid.
C16_SickCounters ==
    Done =>
        LET S == sick_dates(res.selected)
        IN /\ res.total_sick_days = Cardinality(S)
           /\ res.unpaid_sick_days = Cardinality(RunStarts(S))
           /\ res.paid_sick_days = Cardinality(S) - Cardinality(RunStarts(S))
           /\ res.total_sick_days = res.paid_sick_days + res.unpaid_sick_days
           /\ res.total_sick_days >= 0 /\ res.paid_sick_days >= 0
           /\ res.unpaid_sick_days >= 0

\* two runs of sick dates, one of them with two paid days
C16_Witness ==
    /\ Done
    /\ Cardinality(RunStarts(sick_dates(res.selected))) = 2
    /\ \E d \in sick_dates(res.selected) : {d - 1, d - 2} \subseteq sick_dates(res.selected)
    /\ res.paid_sick_days >= 2
    /\ res.unpaid_sick_days = 2

\* the rows C18 speaks of: the date text does not parse, or the row is not
\* sick and a clock cell is empty, a placeholder or unparsable
Skipped(r) ==
    \/ r.date.text # "dmy"
    \/ "sick" \notin r.status /\ (r.t_in.text # "hhmm" \/ r.t_out.text # "hhmm")

\* a sick row with a parsable date and no clock times
SickNoClocks(r) ==
    /\ "sick" \in r.status /\ "no_att" \notin r.status
    /\ r.date.text = "dmy"
    /\ r.t_in.text = "" /\ r.t_out.text = ""

\* what a run returns apart from the copy of its input
Outcome(r) == IF r.status = "ok" THEN [f \in (DOMAIN r) \ {"selected"} |-> r[f]] ELSE r

\* C18: a row whose date text does not parse, and a non-sick row with an
\* absent, placeholder or unparsable clock time, is skipped without a parse
\* error: the run returns what it returns on the table without these rows (no
\* day row, no sick date, no pay); a sick row with a parsable date and no
\* clock times is retained as a sick day row.
C18_BadRowsSkipped ==
    (pc = "done") =>
        /\ res.status \in {"ok", "KeyError"}
        /\ (\E i \in 1..Len(Filled) : ~Skipped(Filled[i]) /\ "no_att" \notin Filled[i].status)
               => res.status = "ok"
        /\ Outcome(res) =
               Outcome(ProcessSelected(params, SelectSeq(Filled, LAMBDA r : ~Skipped(r))))
        /\ sick_dates(Filled) = sick_dates(SelectSeq(Filled, LAMBDA r : ~Skipped(r)))
        /\ \A i \in 1..Len(Filled) :
               SickNoClocks(Filled[i]) =>
                   /\ res.status = "ok"
                   /\ Filled[i].date.day \in sick_dates(res.selected)
                   /\ \E k \in 1..Len(res.daily) :
                          /\ res.daily[k].is_sick
                          /\ res.daily[k].date = Filled[i].date.day

\* a row with valid clocks and an unparsable date next to a worked row, and
\* only the worked row in the day table
C18_Witness ==
    /\ Done
    /\ Len(Filled) = 2
    /\ \E i \in 1..2 :
        /\ Filled[i].date.text = "junk" /\ Filled[i].status = {}
        /\ Filled[i].t_in.text = "hhmm" /\ Filled[i].t_out.text = "hhmm"
    /\ Len(res.daily) = 1
    /\ res.daily[1].worked_day

-----------------------------------------------------------------------------
\* Tables with some of the required columns absent.

RequiredSet == {required[i] : i \in 1..Len(required)}

\* the table df with only the columns cols
WithColumns(df, cols) ==
    [columns |-> cols,
     rows |-> [i \in 1..Len(df.rows) |->
                  [f \in (DOMAIN df.rows[i]) \cap cols |-> df.rows[i][f]]]]

ColumnSets == SUBSET RequiredSet

ColumnTables == {<<PlainRow>>, <<PlainRow, SickInputRow(FirstDay + 1)>>}

InitCols ==
    /\ params \in ParamChoices
    /\ csv_df \in {WithColumns(Frame(rows), cols) : rows \in ColumnTables, cols \in ColumnSets}
    /\ pc = "edit"
    /\ session_state = NoSession
    /\ res = NoResult

SpecCols == InitCols /\ [][RunProcess]_vars

\* C17: when a required column is absent from the input table, process raises
\* a ValueError that names a missing column and returns nothing else: no day
\* table, no summary, no CSV, no JSON.
C17_MissingColumnFails ==
    (pc = "done" /\ RequiredSet \ csv_df.columns # {}) =>
        /\ res.status = "ValueError"
        /\ res.column \in RequiredSet \ csv_df.columns
        /\ DOMAIN res = {"status", "column"}

\* only the date column (the last one checked) is absent
C17_Witness ==
    /\ pc = "done"
    /\ csv_df.columns = RequiredSet \ {"date"}
    /\ Len(csv_df.rows) = 2
    /\ res = ValueError("date")

-----------------------------------------------------------------------------
\* Two calls in a row: the results page builds the processor and calls it on
\* the stored table every time the page is run again.

\* a second shift of the day above: empty date cell, 22:00-16:00
FillRow == [date |-> [text |-> "", day |-> 0], status |-> {},
            t_in |-> Clock(22 * 60), t_out |-> Clock(16 * 60)]

TwiceRows == InputRows \cup {FillRow}

TwiceTables == {<<r>> : r \in TwiceRows} \cup {<<r, q>> : r \in TwiceRows, q \in TwiceRows}

InitTwice ==
    /\ params \in ParamChoices
    /\ csv_df \in {Frame(rows) : rows \in TwiceTables}
    /\ pc = "edit"
    /\ session_state = NoSession
    /\ res = NoResult

Rerun ==
    /\ pc = "done"
    /\ res' = process(params, csv_df)
    /\ pc' = "again"
    /\ UNCHANGED <<params, csv_df, session_state>>

NextTwice == RunProcess \/ Rerun

SpecTwice == InitTwice /\ [][NextTwice]_vars

-----------------------------------------------------------------------------
\* The CSV export read back as an input table.

\* line 523: the final day table written with its own header; a date is
\* written as year-month-day text, which is not the %d/%m/%Y of parse_date
to_csv(paid_final) ==
    [columns |-> UNION {DOMAIN paid_final[i] : i \in 1..Len(paid_final)},
     rows |-> [i \in 1..Len(paid_final) |->
                  [paid_final[i] EXCEPT !.date = [text |-> "junk", day |-> @]]]]

\* two runs with the same summary totals (the JSON of 524-529)
SameTotals(a, b) == a.status = "ok" /\ b.status = "ok" /\ a.json = b.json

\* C20: the CSV export of a run, given back to process as its input table,
\* reproduces the gross, the net and the total of the deductions.
C20_ExportRoundTrip ==
    Done => SameTotals(res, process(params, to_csv(res.paid_final)))

-----------------------------------------------------------------------------
\* Weeks: worked rows on a Saturday, a Sunday and a Monday, of 2 and of 24
\* hours, under both week starts and regular days of 16 and of 24 hours, with
\* the weekly policy (the final table then carries weekly_topup_125).

MaxWeekRows == 3

WeekDays == {5, 6, 7}

\* 00:00-02:00 (2 h) and 09:00-09:00 (24 h)
WeekShifts == {<<0, 2 * 60>>, <<9 * 60, 9 * 60>>}

WeekRows == {WorkedInputRow(d, sh[1], sh[2]) : d \in WeekDays, sh \in WeekShifts}

WeekTables == UNION {[1..n -> WeekRows] : n \in 1..MaxWeekRows}

WeekParamChoices ==
    {[DEFAULT_PARAMS EXCEPT !.OT_BASIS = "Weekly 42h only", !.WEEK_START = ws,
                            !.DAILY_REGULAR_HOURS = reg * HourDen] :
        ws \in {"Sunday", "Monday"}, reg \in {16, 24}}

InitWeek ==
    /\ params \in WeekParamChoices
    /\ csv_df \in {Frame(rows) : rows \in WeekTables}
    /\ pc = "edit"
    /\ session_state = NoSession
    /\ res = NoResult

SpecWeek == InitWeek /\ [][RunProcess]_vars

\* the first day of the 7-day span of d: the Sunday on or before d under
\* "Sunday", the Monday on or before d under "Monday"
WeekStartOf(d, ws) == d - ((d - (IF ws = "Sunday" THEN 6 ELSE 0)) % 7)

\* the rows of df (by index) in the week of row i
WeekOf(df, i, ws) ==
    {j \in 1..Len(df) : WeekStartOf(df[j].date, ws) = WeekStartOf(df[i].date, ws)}

RegularHours(p, r) == Min(r.hours_total, p.DAILY_REGULAR_HOURS)

\* the sum of the values v[i] over the indices i in I
RECURSIVE SumOver(_, _)
SumOver(v, I) ==
    IF I = {} THEN 0
    ELSE LET i == CHOOSE x \in I : TRUE IN v[i] + SumOver(v, I \ {i})

WeekRegular(p, df, I) == SumOver([i \in 1..Len(df) |-> RegularHours(p, df[i])], I)

WeekExcess(p, df, I) == Max(0, WeekRegular(p, df, I) - WEEKLY_THRESHOLD * HourDen)

\* C21: for every week, the sum of weekly_topup_125 over the week's rows is
\* max(0, sum of min(hours_total, DAILY_REGULAR_HOURS) - 42) x HOURLY_WAGE x
\* OVERTIME_T1_BONUS, and every row of a week of at most 42 regular hours has 0.
C21_WeeklyTopupSum ==
    Done =>
        \A i \in 1..Len(res.paid_final) :
            LET I == WeekOf(res.paid_final, i, params.WEEK_START)
                E == WeekExcess(params, res.paid_final, I)
            IN /\ SumOver([j \in 1..Len(res.paid_final) |-> res.paid_final[j].weekly_topup_125], I)
                      = E * params.HOURLY_WAGE * params.OVERTIME_T1_BONUS
               /\ WeekRegular(params, res.paid_final, I) <= WEEKLY_THRESHOLD * HourDen
                      => res.paid_final[i].weekly_topup_125 = 0

\* Sunday weeks: a Saturday row alone in its week with no top-up, and the
\* Sunday and Monday rows sharing the 6 hours above 42 of their week
C21_Witness ==
    /\ Done
    /\ params.WEEK_START = "Sunday" /\ params.DAILY_REGULAR_HOURS = 24 * HourDen
    /\ Len(res.paid_final) = 3
    /\ res.paid_final[1].date = 5 /\ res.paid_final[2].date = 6 /\ res.paid_final[3].date = 7
    /\ res.paid_final[1].hours_total = 24 * HourDen
    /\ res.paid_final[1].weekly_topup_125 = 0
    /\ res.paid_final[2].weekly_topup_125 + res.paid_final[3].weekly_topup_125
           = 6 * HourDen * 65 * 25

\* the top-up hours of a row
TopupHours(p, r) == r.weekly_topup_125 \div (p.HOURLY_WAGE * p.OVERTIME_T1_BONUS)

\* C22: in a week with excess E > 0 the rows are served in date order: row i
\* receives min(regular_i, E - hours given to earlier rows) top-up hours (0
\* once the excess is used up), never more than its own regular hours, and a
\* non-zero top-up only when every earlier row of the week was consumed in full.
C22_GreedyAllocation ==
    Done =>
        \A i \in 1..Len(res.paid_final) :
            LET df == res.paid_final
                I == WeekOf(df, i, params.WEEK_START)
                E == WeekExcess(params, df, I)
                earlier == {j \in I : j < i}
                given == SumOver([j \in 1..Len(df) |-> TopupHours(params, df[j])], earlier)
            IN /\ \A j \in earlier : df[j].date <= df[i].date
               /\ df[i].weekly_topup_125
                      = TopupHours(params, df[i]) * params.HOURLY_WAGE * params.OVERTIME_T1_BONUS
               /\ TopupHours(params, df[i])
                      = Min(RegularHours(params, df[i]), Max(0, E - given))
               /\ TopupHours(params, df[i]) <= RegularHours(params, df[i])
               /\ TopupHours(params, df[i]) > 0 =>
                      \A j \in earlier : TopupHours(params, df[j]) = RegularHours(params, df[j])

\* a week of 2 + 24 + 24 regular hours: the excess of 8 gives 2 hours to the
\* first row, 6 to the second and none to the third
C22_Witness ==
    /\ Done
    /\ Len(res.paid_final) = 3
    /\ WeekOf(res.paid_final, 1, params.WEEK_START) = {1, 2, 3}
    /\ TopupHours(params, res.paid_final[1]) = 2 * HourDen
    /\ TopupHours(params, res.paid_final[2]) = 6 * HourDen
    /\ TopupHours(params, res.paid_final[3]) = 0
    /\ res.paid_final[3].hours_total = 24 * HourDen

\* C23: under "Weekly 42h only" every row of the final day table has
\* pay_overtime_t1 = pay_overtime_t2 = 0 and pay_total_day = pay_base + evening
\* + night + weekend + holiday bonus + travel_pay + pay_weekly_topup; under
\* "Daily only" every row has pay_weekly_topup = 0 and pay_total_day is the
\* value of add_pay_columns, or 0 on a sick date.
C23_PolicyTotals ==
    Done =>
        /\ params.OT_BASIS = "Weekly 42h only" =>
               \A i \in 1..Len(res.paid_final) :
                   LET r == res.paid_final[i]
                   IN /\ r.pay_overtime_t1 = 0 /\ r.pay_overtime_t2 = 0
                      /\ r.pay_total_day = r.pay_base + r.pay_evening_bonus + r.pay_night_bonus
                                           + r.pay_weekend_bonus + r.pay_holiday_bonus
                                           + r.travel_pay + r.pay_weekly_topup
        /\ params.OT_BASIS = "Daily only" =>
               /\ Len(res.paid_final) = Len(res.paid)
               /\ \A i \in 1..Len(res.paid_final) :
                      /\ res.paid_final[i].pay_weekly_topup = 0
                      /\ res.paid_final[i].pay_total_day =
                             IF res.paid_final[i].date \in sick_dates(res.selected) THEN 0
                             ELSE res.paid[i].pay_total_day

\* the weekly policy on a row that had daily overtime pay and receives
\* weekly top-up and travel
C23_Witness ==
    /\ Done
    /\ params.OT_BASIS = "Weekly 42h only"
    /\ \E i \in 1..Len(res.paid_final) :
        /\ res.paid[i].pay_overtime_t1 > 0 /\ res.paid[i].pay_overtime_t2 > 0
        /\ res.paid_final[i].pay_weekly_topup > 0
        /\ res.paid_final[i].travel_pay > 0
        /\ res.paid_final[i].pay_total_day # res.paid[i].pay_total_day

-----------------------------------------------------------------------------
\* Shifts: one worked row that starts on any weekday at any hour (or at
\* 07:30) and ends at any hour (or at 07:30), up to 24 hours later.

ShiftDays == 4..10

ShiftTimes == {h * 60 : h \in 0..23} \cup {T_07_30}

ShiftTables == {<<WorkedInputRow(d, a, b)>> : d \in ShiftDays, a \in ShiftTimes, b \in ShiftTimes}

InitShift ==
    /\ params = DEFAULT_PARAMS
    /\ csv_df \in {Frame(rows) : rows \in ShiftTables}
    /\ pc = "edit"
    /\ session_state = NoSession
    /\ res = NoResult

SpecShift == InitShift /\ [][RunProcess]_vars

\* the half hours of [start_dt, end_dt) (both ends are on the half hour)
HalfHours(start_dt, end_dt) == (start_dt \div 30)..((end_dt \div 30) - 1)

\* minute m of the time line lies between Friday 16:00 and Sunday 07:30
InWeekend(m) ==
    LET w == m % (7 * DayMinutes)
    IN 4 * DayMinutes + 16 * 60 <= w /\ w < 6 * DayMinutes + 7 * 60 + 30

InEvening(m) == m % DayMinutes >= 16 * 60
InNight(m) == m % DayMinutes < 7 * 60 + 30

\* every weekend window that overlaps [start_dt, end_dt), by its Friday
OverlappingWindows(start_dt, end_dt) ==
    {<<combine(f, 16 * 60), combine(f + 2, 7 * 60 + 30)>> :
        f \in {d \in (DateOf(start_dt) - 7)..(DateOf(end_dt) + 7) :
                  /\ d % 7 = 4
                  /\ combine(d, 16 * 60) < end_dt
                  /\ combine(d + 2, 7 * 60 + 30) > start_dt}}

\* C24: for every worked interval of at most 24 hours, minutes_weekend is the
\* number of its minutes between a Friday 16:00 and the next Sunday 07:30; the
\* windows generated contain every weekend window that overlaps the interval,
\* and no window twice, whatever the weekday the shift starts on.
C24_WeekendExact ==
    Done =>
        LET r == res.daily[1]
            ws == iter_weekend_windows(r.start, r.end)
        IN /\ r.end - r.start <= DayMinutes
           /\ r.minutes_weekend =
                  30 * Cardinality({c \in HalfHours(r.start, r.end) : InWeekend(30 * c)})
           /\ OverlappingWindows(r.start, r.end) \subseteq {ws[i] : i \in 1..Len(ws)}
           /\ \A i, j \in 1..Len(ws) : ws[i] = ws[j] => i = j

\* a shift from Saturday 22:00 to Sunday 09:00: the loop runs twice and the
\* 9 h 30 min up to Sunday 07:30 are weekend minutes
C24_Witness ==
    /\ Done
    /\ res.daily[1].start = combine(5, 22 * 60)
    /\ res.daily[1].end = combine(6, 9 * 60)
    /\ Len(iter_weekend_windows(res.daily[1].start, res.daily[1].end)) = 2
    /\ res.daily[1].minutes_weekend = 9 * 60 + 30

\* C25: for every worked interval of at most 24 hours, minutes_evening is the
\* number of its minutes at a time of day in [16:00, 24:00) and minutes_night
\* the number in [00:00, 07:30), over both days of an overnight shift; so
\* evening + night <= total and hours_morning = hours_total - hours_evening -
\* hours_night, which is never negative.
C25_EveningNightExact ==
    Done =>
        LET r == res.daily[1]
            q == res.paid[1]
        IN /\ r.minutes_evening =
                  30 * Cardinality({c \in HalfHours(r.start, r.end) : InEvening(30 * c)})
           /\ r.minutes_night =
                  30 * Cardinality({c \in HalfHours(r.start, r.end) : InNight(30 * c)})
           /\ r.minutes_evening + r.minutes_night <= r.minutes_total
           /\ q.hours_total - q.hours_evening - q.hours_night >= 0
           /\ q.hours_morning = q.hours_total - q.hours_evening - q.hours_night

\* a shift from 22:00 to 09:00: 2 evening hours on the first day, 7 h 30 min
\* of night on the second, 1 h 30 min of morning
C25_Witness ==
    /\ Done
    /\ res.daily[1].start % DayMinutes = 22 * 60
    /\ res.daily[1].minutes_total = 11 * 60
    /\ res.daily[1].minutes_evening = 2 * 60
    /\ res.daily[1].minutes_night = 7 * 60 + 30
    /\ res.paid[1].hours_morning = 90

-----------------------------------------------------------------------------
\* The max policy against the daily policy.

DailyOnly(p) == [p EXCEPT !.OT_BASIS = "Daily only"]

\* gross, the deductions and net of a run (lines 473-480)
MoneyOf(r) ==
    IF r.status = "ok"
    THEN [den |-> r.den, gross |-> r.monthly_gross_taxable,
          employee_pension |-> r.employee_pension, ni |-> r.ni, health |-> r.health,
          tax_before |-> r.tax_before, tax_after |-> r.tax_after, net |-> r.net,
          json |-> r.json]
    ELSE r

\* sum of pay_total_day + sum of pay_sick + SIBUS_MONTHLY, over r.den
GrossFromTotals(p, r) ==
    SumCol(r.paid_final, "pay_total_day") * (r.den \div MoneyDen)
    + SumCol(r.paid_final, "pay_sick") + p.SIBUS_MONTHLY * r.den

\* some day total of run a is above the same day's total in run b
SomeDayAbove(a, b) ==
    \E i \in 1..Len(a.paid_final) :
        a.paid_final[i].pay_total_day > b.paid_final[i].pay_total_day

SameMoneyAsDaily(p, a, b) ==
    /\ MoneyOf(a) = MoneyOf(b)
    /\ Len(a.paid_final) = Len(b.paid_final)
    /\ SomeDayAbove(a, b) => a.monthly_gross_taxable # GrossFromTotals(p, a)
    /\ b.monthly_gross_taxable = GrossFromTotals(p, b)

\* C26: under "Daily + Weekly (max)" the gross, every deduction and the net
\* are those of "Daily only" on the same input; the weekly model changes
\* pay_total_day only, so when it is chosen for some day the gross is not
\* sum of pay_total_day + sum of pay_sick + SIBUS_MONTHLY.
C26_MaxGrossIsDailyGross ==
    (Done /\ params.OT_BASIS = "Daily + Weekly (max)") =>
        SameMoneyAsDaily(params, res, process(DailyOnly(params), csv_df))

\* the max policy, no sick date, and a day whose total is above the one
\* add_pay_columns computed
C26_Witness ==
    /\ Done
    /\ params.OT_BASIS = "Daily + Weekly (max)"
    /\ sick_dates(res.selected) = {}
    /\ \E i \in 1..Len(res.paid_final) :
        res.paid_final[i].pay_total_day > res.paid[i].pay_total_day
    /\ res.monthly_gross_taxable
           = SumCol(res.paid, "pay_total_day") * (res.den \div MoneyDen)
             + params.SIBUS_MONTHLY * res.den

-----------------------------------------------------------------------------
\* The synthetic sick row of add_sick_pay.

\* the input rows the segmenter keeps: not no-attendance, date parsed, and
\* sick or with both clock times
Retained(r) == "no_att" \notin r.status /\ ~Skipped(r)

\* C27: inside process every sick date (status sick, not no-attendance, date
\* parses) already has a sick row in the table given to add_sick_pay, so no
\* row is synthesised: the final day table has as many rows as the day table,
\* one per retained input row.
C27_NoSyntheticSickRow ==
    Done =>
        /\ \A d \in sick_dates(res.selected) :
               \E k \in 1..Len(res.paid) : res.paid[k].date = d /\ res.paid[k].is_sick
        /\ Len(res.paid_final) = Len(res.daily)
        /\ Len(res.paid_final) = Len(SelectSeq(Filled, Retained))
        /\ \A k \in 1..Len(res.paid_final) : res.paid_final[k].status = res.daily[k].status

\* a sick row without clock times after a worked row: two rows in, two rows out
C27_Witness ==
    /\ Done
    /\ Len(Filled) = 2
    /\ Filled[2].status = {"sick", "holiday"}
    /\ Filled[2].t_in.text = "" /\ Filled[2].t_out.text = "-"
    /\ sick_dates(res.selected) = {LastDay}
    /\ Len(res.paid_final) = 2
    /\ res.paid_final[2].is_sick /\ res.paid_final[2].status = {"sick", "holiday"}

-----------------------------------------------------------------------------
\* A date split into several rows.

\* the regular hours a date contributes: its rows' hours, each capped
DateRegular(p, df, d) ==
    SumOver([j \in 1..Len(df) |-> RegularHours(p, df[j])], {j \in 1..Len(df) : df[j].date = d})

\* the dates of the week of row i
WeekDatesOf(df, i, ws) == {df[j].date : j \in WeekOf(df, i, ws)}

\* C28: daily overtime is counted per row: a row of at most
\* DAILY_REGULAR_HOURS has hours_ot_t1 = hours_ot_t2 = 0 whatever the other
\* rows of its date add up to, and a date contributes the sum of its rows'
\* capped hours to the regular hours of its week.
C28_OvertimePerRow ==
    Done =>
        /\ \A i \in 1..Len(res.paid) :
               res.paid[i].hours_total <= params.DAILY_REGULAR_HOURS =>
                   /\ res.paid[i].hours_ot_t1 = 0 /\ res.paid[i].hours_ot_t2 = 0
                   /\ res.paid[i].pay_overtime_t1 = 0 /\ res.paid[i].pay_overtime_t2 = 0
        /\ (params.OT_BASIS = "Weekly 42h only" /\ sick_dates(res.selected) = {}) =>
               \A i \in 1..Len(res.paid_final) :
                   LET df == res.paid_final
                       I == WeekOf(df, i, params.WEEK_START)
                       D == WeekDatesOf(df, i, params.WEEK_START)
                       regular == SumOver([d \in D |-> DateRegular(params, df, d)], D)
                   IN SumOver([j \in 1..Len(df) |-> df[j].pay_weekly_topup], I)
                          = Max(0, regular - WEEKLY_THRESHOLD * HourDen)
                            * params.HOURLY_WAGE * params.OVERTIME_T1_BONUS

\* three rows of 16 hours on one date with regular days of 16 hours: no daily
\* overtime on any row, 48 regular hours in the week, 6 hours of top-up
C28_Witness ==
    /\ Done
    /\ params.OT_BASIS = "Weekly 42h only"
    /\ params.DAILY_REGULAR_HOURS = 16 * HourDen
    /\ Len(res.paid) = 3
    /\ \A i \in 1..3 :
        /\ res.paid[i].date = res.paid[1].date
        /\ res.paid[i].hours_total = 16 * HourDen
        /\ res.paid[i].hours_ot_t1 = 0 /\ res.paid[i].hours_ot_t2 = 0
    /\ DateRegular(params, res.paid, res.paid[1].date) = 48 * HourDen
    /\ SumCol(res.paid_final, "pay_weekly_topup")
           = 6 * HourDen * params.HOURLY_WAGE * params.OVERTIME_T1_BONUS

-----------------------------------------------------------------------------
\* No row retained.

\* C29: when the table has all required columns and the segmenter retains no
\* row, process returns nothing (no zero payroll with gross = SIBUS_MONTHLY,
\* no CSV, no JSON): it ends in the error raised by sorting the empty day
\* table by date.
C29_EmptyDayTableRaises ==
    (/\ pc = "done"
     /\ RequiredSet \subseteq csv_df.columns
     /\ \A i \in 1..Len(Filled) : ~Retained(Filled[i])) =>
        /\ res = Failed("KeyError")
        /\ DOMAIN res = {"status"}

\* a single no-attendance row with valid date and clock times
C29_Witness ==
    /\ pc = "done"
    /\ Len(Filled) = 1
    /\ Filled[1].status = {"no_att"}
    /\ Filled[1].date.text = "dmy"
    /\ Filled[1].t_in.text = "hhmm" /\ Filled[1].t_out.text = "hhmm"
    /\ res = Failed("KeyError")

-----------------------------------------------------------------------------
\* The three-step flow (app.py 627-629, 640-841). session_state holds step
\* and the two table slots; csv_df is the table in the data editor of step 2;
\* res is what step 3 computed in the current run of the page.

MaxWizardRows == 2

\* a file with all the columns and one row, or with one column absent
UploadTables ==
    {Frame(<<r>>) : r \in InputRows}
    \cup {WithColumns(Frame(<<PlainRow>>), RequiredSet \ {c}) : c \in {"date", "total"}}

\* variant: the confirm button is never disabled
disabled_never(edited) == FALSE

\* disabled=bool(missing) of the confirm button (722-727)
disabled(edited) == MissingColumns(edited) # <<>>

\* step 1: a table was read from the uploaded file (689-693)
Upload ==
    /\ session_state.step = 1
    /\ \E df_in \in UploadTables :
        /\ session_state' = [step |-> 2, input_df_raw |-> df_in, input_df_edited |-> df_in]
        /\ csv_df' = df_in
    /\ UNCHANGED <<params, pc, res>>

\* step 2: a row is added in the data editor (num_rows="dynamic")
AddRow ==
    /\ session_state.step = 2
    /\ Len(csv_df.rows) < MaxWizardRows
    /\ \E r \in InputRows :
        csv_df' = [csv_df EXCEPT !.rows =
                      Append(@, [f \in (DOMAIN r) \cap csv_df.columns |-> r[f]])]
    /\ UNCHANGED <<params, pc, res, session_state>>

\* step 2: the last row is deleted in the data editor
DeleteRow ==
    /\ session_state.step = 2
    /\ Len(csv_df.rows) > 0
    /\ csv_df' = [csv_df EXCEPT !.rows = SubSeq(@, 1, Len(@) - 1)]
    /\ UNCHANGED <<params, pc, res, session_state>>

\* step 2: the back button (731-735)
Back ==
    /\ session_state.step = 2
    /\ session_state' = [step |-> 1, input_df_raw |-> csv_df, input_df_edited |-> csv_df]
    /\ UNCHANGED <<params, csv_df, pc, res>>

\* step 2: the confirm button (737-741)
Confirm ==
    /\ session_state.step = 2
    /\ ~disabled(csv_df)
    /\ session_state' = [step |-> 3, input_df_raw |-> csv_df, input_df_edited |-> csv_df]
    /\ UNCHANGED <<params, csv_df, pc, res>>

\* step 3: the page computes the payroll of the confirmed table (755-757)
Results ==
    /\ session_state.step = 3
    /\ session_state.input_df_edited # NoTable
    /\ pc = "edit"
    /\ res' = process(params, session_state.input_df_edited)
    /\ pc' = "done"
    /\ UNCHANGED <<params, csv_df, session_state>>

\* step 3: the back button, drawn after the results (832-836)
BackToEdit ==
    /\ session_state.step = 3
    /\ pc = "done" /\ res.status = "ok"
    /\ session_state' = [session_state EXCEPT !.step = 2,
                                              !.input_df_raw = session_state.input_df_edited]
    /\ csv_df' = session_state.input_df_edited
    /\ pc' = "edit"
    /\ res' = NoResult
    /\ UNCHANGED params

InitWizard ==
    /\ params = DEFAULT_PARAMS
    /\ csv_df = Frame(<<>>)
    /\ pc = "edit"
    /\ res = NoResult
    /\ session_state = NoSession

NextWizard == Upload \/ AddRow \/ DeleteRow \/ Back \/ Confirm \/ Results \/ BackToEdit

SpecWizard == InitWizard /\ [][NextWizard]_vars

\* C30: step is 1, 2 or 3 and changes only by 1->2 (a table is stored in both
\* slots), 2->1, 2->3 (only when no required column is missing from the edited
\* table) and 3->2; from step 2 on both slots hold a table; 2->1 and 2->3
\* store the edited table in both slots; the payroll is computed at step 3
\* only, on the confirmed table.
C30_WizardSteps ==
    /\ [](/\ session_state.step \in {1, 2, 3}
          /\ session_state.step >= 2 =>
                 /\ session_state.input_df_raw # NoTable
                 /\ session_state.input_df_edited # NoTable)
    /\ [][/\ session_state'.step # session_state.step =>
                 <<session_state.step, session_state'.step>>
                     \in {<<1, 2>>, <<2, 1>>, <<2, 3>>, <<3, 2>>}
          /\ (session_state.step = 1 /\ session_state'.step = 2) =>
                 /\ session_state'.input_df_raw # NoTable
                 /\ session_state'.input_df_edited = session_state'.input_df_raw
          /\ (session_state.step = 2 /\ session_state'.step # 2) =>
                 /\ session_state'.input_df_raw = csv_df
                 /\ session_state'.input_df_edited = csv_df
          /\ (session_state.step = 2 /\ session_state'.step = 3) =>
                 RequiredSet \subseteq csv_df.columns
          /\ (res' # res /\ res' # NoResult) =>
                 /\ session_state.step = 3 /\ session_state'.step = 3
                 /\ res' = process(params, session_state.input_df_edited)]_vars

\* step 3 after a row was added to the uploaded table and confirmed
C30_Witness ==
    /\ session_state.step = 3
    /\ pc = "done" /\ res.status = "ok"
    /\ Len(session_state.input_df_edited.rows) = 2
    /\ session_state.input_df_raw = session_state.input_df_edited
    /\ Len(res.paid_final) = 2

====
